---------------------------- MODULE Spec2Model ----------------------------
(***************************************************************************)
(* A model of the bitmap_io crate (src/src/lib.rs, bitmap_read.rs,         *)
(* bitmap_write.rs): the BMP header models, the pixel decode and encode    *)
(* engines, the mask analyzer, the channel scaling and the geometric       *)
(* operations of the Bitmap aggregate.                                     *)
(*                                                                         *)
(* Representation of machine values.                                       *)
(*  - u8 and u16 are the naturals 0..255 and 0..65535.                     *)
(*  - A 32-bit word (u32 or i32) is the integer in -2^31 .. 2^31-1 that    *)
(*    has the same bit pattern in two's complement.  It is the value of    *)
(*    an i32 as it stands, and the value of a u32 is the word itself when  *)
(*    it is >= 0 and the word + 2^32 when it is < 0.  `as u32` / `as i32`  *)
(*    casts are therefore the identity on words, as they are on bits.      *)
(*  - An f32 >= 0 is a record [m, e] standing for m * 2^e, with m = 0 or   *)
(*    2^23 <= m < 2^24 (a normalised 24-bit significand).                  *)
(*  - A vector or slice is a sequence.                                     *)
(*  - An operation that can panic returns [ok |-> BOOLEAN, val |-> ...].   *)
(***************************************************************************)
EXTENDS Integers, Sequences, FiniteSets, TLC

---------------------------------------------------------------------------
(* Machine words                                                           *)

MinI32 == -((2^30 - 1) + 2^30) - 1
MaxI32 == (2^30 - 1) + 2^30

Byte == 0..255

\* Bit i (0..31) of a word.
BitAt(w, i) == IF i = 31 THEN w < 0 ELSE (w \div (2^i)) % 2 = 1

\* The set of the bit positions that are set in a word.
Bits(w) == {i \in 0..31 : BitAt(w, i)}

RECURSIVE SumPow2(_)
SumPow2(S) ==
    IF S = {} THEN 0
    ELSE LET i == CHOOSE j \in S : TRUE IN 2^i + SumPow2(S \ {i})

\* The word whose set bits are S.
FromBits(S) ==
    SumPow2(S \ {31}) + (IF 31 \in S THEN MinI32 ELSE 0)

\* u32 comparison of two words.
ULt(a, b) == IF (a < 0) = (b < 0) THEN a < b ELSE b < 0
ULe(a, b) == a = b \/ ULt(a, b)

\* The wrapped sum of two words that are both >= 0.
AddWrapNN(x, y) ==
    IF x > MaxI32 - y THEN ((x + MinI32) + y) + MinI32 ELSE x + y

\* u32 addition: the wrapped sum (v) and whether the true sum exceeds
\* 2^32 - 1 (of), which panics in a build with overflow checks.
AddU32(a, b) ==
    IF a >= 0 /\ b >= 0 THEN [v |-> AddWrapNN(a, b), of |-> FALSE]
    ELSE IF a < 0 /\ b < 0
    THEN [v |-> AddWrapNN(a - MinI32, b - MinI32), of |-> TRUE]
    ELSE [v |-> a + b, of |-> a + b >= 0]

\* Byte i (0..3) of a word.
ByteAt(w, i) == (w \div 256^i) % 256

\* The word of four bytes, least significant first.
FromBytes(b0, b1, b2, b3) ==
    b0 + 256 * b1 + 65536 * b2
    + 16777216 * (IF b3 >= 128 THEN b3 - 256 ELSE b3)

\* u32 multiplication, byte by byte with carries: the wrapped product (v)
\* and whether the true product exceeds 2^32 - 1 (of).
MulU32(a, b) ==
    LET Column(k) == LET terms == [i \in 0..k |-> ByteAt(a, i) * ByteAt(b, k - i)]
                     IN terms[0] + (IF k >= 1 THEN terms[1] ELSE 0)
                        + (IF k >= 2 THEN terms[2] ELSE 0)
                        + (IF k >= 3 THEN terms[3] ELSE 0)
        t0 == Column(0)
        t1 == Column(1) + t0 \div 256
        t2 == Column(2) + t1 \div 256
        t3 == Column(3) + t2 \div 256
        high == \E i \in 1..3 : \E j \in (4 - i)..3 :
                   ByteAt(a, i) # 0 /\ ByteAt(b, j) # 0
    IN [v  |-> FromBytes(t0 % 256, t1 % 256, t2 % 256, t3 % 256),
        of |-> t3 \div 256 > 0 \/ high]

\* Logical shifts of a u32 by k bits (0 <= k <= 31); bits shifted out are lost.
Shr(w, k) == FromBits({i - k : i \in {j \in Bits(w) : j >= k}})
Shl(w, k) == FromBits({i + k : i \in {j \in Bits(w) : j + k <= 31}})

BitAnd(a, b) == FromBits(Bits(a) \cap Bits(b))
BitOr(a, b)  == FromBits(Bits(a) \cup Bits(b))

\* `as u8` and `as u16` of a word: the low 8 and 16 bits.
AsU8(w)  == w % 256
AsU16(w) == w % 65536

\* The bytes of a word, most significant first.
push_u32_big_endian(w) == << (w \div 16777216) % 256, (w \div 65536) % 256,
                             (w \div 256) % 256, w % 256 >>

\* Little-endian bytes of a word (push_u32, push_i32) and of a u16 (push_u16).
push_u32(w) == << w % 256, (w \div 256) % 256,
                  (w \div 65536) % 256, (w \div 16777216) % 256 >>
push_i32(w) == push_u32(w)
push_u16(h) == << h % 256, (h \div 256) % 256 >>

\* A padding that is never zero: a whole alignment unit on an aligned value.
pad_to_align_never_zero(value, alignment) == alignment - (value % alignment)

\* The macro pad_to_align!(value, alignment).  Every value the model passes
\* is >= 0 as an integer, or a u32 word with an alignment of 4 or 8 (which
\* divide 2^32), so TLA+'s % is Rust's % on it.
pad_to_align(value, alignment) ==
    (alignment - (value % alignment)) % alignment

---------------------------------------------------------------------------
(* Mask analyzer                                                           *)

RECURSIVE MaskScan(_, _)
MaskScan(mask, offset) ==
    IF BitAt(mask, 0) THEN << offset, mask >>
    ELSE MaskScan(Shr(mask, 1), offset + 1)

\* A mask analyzer that returns the mask as it came instead of shifted down.
mask_offset_and_shifted_unshifted(mask) ==
    IF mask = 0 THEN << 0, 0 >> ELSE << MaskScan(mask, 0)[1], mask >>

\* mask_offset_and_shifted(mask) -> (offset, shifted)
mask_offset_and_shifted(mask) ==
    IF mask = 0 THEN << 0, 0 >> ELSE MaskScan(mask, 0)

---------------------------------------------------------------------------
(* f32 arithmetic, for map_zero_based                                      *)

RECURSIVE BitLen(_)
BitLen(n) == IF n = 0 THEN 0 ELSE 1 + BitLen(n \div 2)

F32Zero == [m |-> 0, e |-> 0]

\* The significand q, after a round to nearest even that dropped a
\* remainder r out of d (0 <= r < d), renormalised.
F32Pack(q, e, r, d) ==
    LET up == (2 * r > d) \/ (2 * r = d /\ q % 2 = 1)
        q2 == IF up THEN q + 1 ELSE q
    IN IF q2 = 2^24 THEN [m |-> 2^23, e |-> e + 1] ELSE [m |-> q2, e |-> e]

\* `n as f32` for a u32 word n: n rounded to 24 significant bits.
F32FromU32(n) ==
    IF n = 0 THEN F32Zero
    ELSE IF n < 0
    THEN LET u == n - MinI32 IN F32Pack(2^23 + (u \div 256), 8, u % 256, 256)
    ELSE LET L == BitLen(n) IN
         IF L <= 24 THEN [m |-> n * 2^(24 - L), e |-> L - 24]
         ELSE F32Pack(n \div 2^(L - 24), L - 24, n % 2^(L - 24), 2^(L - 24))

RECURSIVE LongDiv(_, _, _, _)
\* `bits` more quotient bits of r / d (r < d), appended to acc.
LongDiv(r, d, bits, acc) ==
    IF bits = 0 THEN << acc, r >>
    ELSE LET r2 == 2 * r IN
         IF r2 >= d THEN LongDiv(r2 - d, d, bits - 1, 2 * acc + 1)
         ELSE LongDiv(r2, d, bits - 1, 2 * acc)

\* a / b in f32 (b # 0), rounded to nearest even.
F32Div(a, b) ==
    IF a.m = 0 THEN F32Zero
    ELSE IF a.m >= b.m
    THEN LET qr == LongDiv(a.m - b.m, b.m, 23, 1)
         IN F32Pack(qr[1], a.e - b.e - 23, qr[2], b.m)
    ELSE LET qr == LongDiv(a.m, b.m, 24, 0)
         IN F32Pack(qr[1], a.e - b.e - 24, qr[2], b.m)

\* a * b in f32, rounded to nearest even.
F32Mul(a, b) ==
    IF a.m = 0 \/ b.m = 0 THEN F32Zero
    ELSE LET ah   == a.m \div 4096
             al   == a.m % 4096
             bh   == b.m \div 4096
             bl   == b.m % 4096
             mid  == ah * bl + al * bh
             lo0  == (mid % 4096) * 4096 + al * bl
             H    == ah * bh + (mid \div 4096) + (lo0 \div 16777216)
             L    == lo0 % 16777216
         IN IF H >= 2^23
            THEN F32Pack(H, a.e + b.e + 24, L, 16777216)
            ELSE F32Pack(2 * H + (L \div 8388608), a.e + b.e + 23,
                         L % 8388608, 8388608)

\* The integer part of an f32 (the value `as u8` yields when it is <= 255).
F32Trunc(a) ==
    IF a.m = 0 THEN 0
    ELSE IF a.e >= 0 THEN (IF a.e > 6 THEN MaxI32 ELSE a.m * 2^(a.e))
    ELSE IF a.e < -24 THEN 0
    ELSE a.m \div 2^(-a.e)

---------------------------------------------------------------------------
(* Channel scaling                                                         *)

\* A scaling with the two maxima exchanged.
map_zero_based_swapped(value, from, to) ==
    IF from = to \/ from = 0 \/ to = 0 THEN value
    ELSE LET t == F32Div(F32FromU32(value), F32FromU32(to))
         IN F32Trunc(F32Mul(F32FromU32(from), t))

\* map_zero_based(&mut value, from, to): the new value (the f32 product
\* truncated; it is cast `as u8`, and is <= 255 whenever value <= from
\* and to <= 255).
map_zero_based(value, from, to) ==
    IF from = to \/ from = 0 THEN value
    ELSE LET t == F32Div(F32FromU32(value), F32FromU32(from))
         IN F32Trunc(F32Mul(F32FromU32(to), t))

---------------------------------------------------------------------------
(* Build and outcomes                                                      *)

\* The two builds of the crate: "debug" checks integer overflow and shift
\* amounts (and panics), "release" wraps.
Builds == {"debug", "release"}

\* build:  the build of the crate that runs
\* op:     the operation applied last ("start" before any)
\* input:  the arguments the caller chose
\* bitmap: the Bitmap aggregate the caller owns
\* buffer: the byte buffer produced last
\* output: the value returned last
VARIABLES build, op, input, bitmap, buffer, output

vars == << build, op, input, bitmap, buffer, output >>

Ok(v)  == [ok |-> TRUE,  val |-> v]
Panic  == [ok |-> FALSE, val |-> << >>]

---------------------------------------------------------------------------
(* Data model                                                              *)

BMP_MAGIC_NUMBER == 19778
FILE_HEADER_SIZE == 14

\* CompressionType as u32
Uncompressed == 0
BitFields    == 3

\* BitmapPixel::rgba / rgb / transparent / black / white
rgba(r, g, b, a) == [red |-> r, green |-> g, blue |-> b, alpha |-> a]
rgb(r, g, b)     == rgba(r, g, b, 255)
transparent      == rgba(255, 255, 255, 0)
black            == rgba(0, 0, 0, 255)
white            == rgba(255, 255, 255, 255)

same_color_as(p, q) ==
    p.red = q.red /\ p.green = q.green /\ p.blue = q.blue

\* BitmapPixel::distance_squared
distance_squared(p, q) ==
    LET red_distance   == p.red - q.red
        green_distance == p.green - q.green
        blue_distance  == p.blue - q.blue
    IN red_distance * red_distance + green_distance * green_distance
       + blue_distance * blue_distance

RECURSIVE ClosestScan(_, _, _, _, _)
\* The turns current_index .. last - 1 of the loop of find_closest_by_index,
\* in the order of the loop; best is (result, result_distance) before them.
\* The range is run in two halves, the first one to its end before the
\* second is entered (its result is below middle), which keeps the
\* evaluation shallow for a palette of 256 entries.
ClosestScan(p, palette, current_index, last, best) ==
    IF current_index >= last THEN best
    ELSE IF last - current_index = 1
    THEN LET current_distance == distance_squared(p, palette[current_index + 1])
         IN IF current_distance < best.result_distance
            THEN [result |-> current_index,
                  result_distance |-> current_distance]
            ELSE best
    ELSE LET middle == (current_index + last) \div 2
             first  == ClosestScan(p, palette, current_index, middle, best)
         IN IF first.result < middle
            THEN ClosestScan(p, palette, middle, last, first)
            ELSE first

RECURSIVE ClosestScanLast(_, _, _, _, _)
ClosestScanLast(p, palette, current_index, result, result_distance) ==
    IF current_index >= Len(palette) THEN result
    ELSE LET current_distance == distance_squared(p, palette[current_index + 1])
         IN IF current_distance <= result_distance
            THEN ClosestScanLast(p, palette, current_index + 1,
                                 current_index, current_distance)
            ELSE ClosestScanLast(p, palette, current_index + 1,
                                 result, result_distance)

\* A nearest-colour search in which the last of several minima wins.
find_closest_by_index_last(p, palette) ==
    ClosestScanLast(p, palette, 1, 0, distance_squared(p, palette[1]))

\* BitmapPixel::find_closest_by_index (0-based index; the palette is not empty)
find_closest_by_index(p, palette) ==
    ClosestScan(p, palette, 1, Len(palette),
                [result |-> 0,
                 result_distance |-> distance_squared(p, palette[1])]).result

---------------------------------------------------------------------------
(* Byte cursor (BytesWalker): the buffer `data` and the 0-based index i    *)

has_data(data, i) == i < Len(data)

\* Whether next_u8 / next_u16 / next_u32 at index i stay inside the buffer
\* (they panic otherwise).
CanRead(data, i, n) == i + n <= Len(data)

next_u8(data, i)  == data[i + 1]
next_u16(data, i) == data[i + 1] + 256 * data[i + 2]
next_u32(data, i) ==
    data[i + 1] + 256 * data[i + 2] + 65536 * data[i + 3]
    + 16777216 * (IF data[i + 4] >= 128 THEN data[i + 4] - 256 ELSE data[i + 4])
next_i32(data, i) == next_u32(data, i)

\* No alignment: the cursor stays where it is.
align_with_u32_none(i) == i

\* align_with_u32: the index after the alignment.
align_with_u32(i) == i + pad_to_align(i, 4)

\* The Rust slice data[a .. b] (a <= b <= len, else a panic at the caller).
Slice(data, a, b) == SubSeq(data, a + 1, b)

Zeros(n) == [k \in 1..n |-> 0]

---------------------------------------------------------------------------
(* Pixel decode engine (bitmap_read.rs)                                    *)

RECURSIVE Read32BitfieldLoop(_, _, _, _)
Read32BitfieldLoop(data, i, m, result) ==
    IF ~has_data(data, i) THEN Ok(result)
    ELSE IF ~CanRead(data, i, 4) THEN Panic
    ELSE LET pixel_value == next_u32(data, i)
             pixel == [blue  |-> AsU8(Shr(pixel_value, m.blue_offset)),
                       green |-> AsU8(Shr(pixel_value, m.green_offset)),
                       red   |-> AsU8(Shr(pixel_value, m.red_offset)),
                       alpha |-> IF m.alpha_mask = 0 THEN 255
                                 ELSE AsU8(Shr(pixel_value, m.alpha_offset))]
         IN Read32BitfieldLoop(data, i + 4, m, Append(result, pixel))

\* A 32-bit decoder that takes every pixel for opaque, as in XRGB mode.
read_32_bitfield_opaque(data, red_mask, green_mask, blue_mask, alpha_mask) ==
    Read32BitfieldLoop(data, 0,
        [red_offset   |-> mask_offset_and_shifted(red_mask)[1],
         green_offset |-> mask_offset_and_shifted(green_mask)[1],
         blue_offset  |-> mask_offset_and_shifted(blue_mask)[1],
         alpha_offset |-> mask_offset_and_shifted(alpha_mask)[1],
         alpha_mask   |-> 0], << >>)

read_32_bitfield(data, red_mask, green_mask, blue_mask, alpha_mask) ==
    Read32BitfieldLoop(data, 0,
        [red_offset   |-> mask_offset_and_shifted(red_mask)[1],
         green_offset |-> mask_offset_and_shifted(green_mask)[1],
         blue_offset  |-> mask_offset_and_shifted(blue_mask)[1],
         alpha_offset |-> mask_offset_and_shifted(alpha_mask)[1],
         alpha_mask   |-> alpha_mask], << >>)

\* One channel of a 16-bit pixel: ((pixel_value & mask) >> offset) as u8,
\* then map_zero_based(channel, shifted, 0xff).
Channel16(pixel_value, mask) ==
    LET os == mask_offset_and_shifted(mask)
    IN map_zero_based(AsU8(Shr(BitAnd(pixel_value, mask), os[1])), os[2], 255)

RECURSIVE Read16BitfieldLoop(_, _, _, _, _, _)
Read16BitfieldLoop(data, i, column_index, image_width, m, result) ==
    IF ~has_data(data, i) THEN Ok(result)
    ELSE LET at_row == column_index = image_width
             col    == IF at_row THEN 0 ELSE column_index
             j      == IF at_row THEN align_with_u32(i) ELSE i
         IN IF ~has_data(data, j) THEN Ok(result)
            ELSE IF ~CanRead(data, j, 2) THEN Panic
            ELSE LET pixel_value == next_u16(data, j)
                     pixel == [blue  |-> Channel16(pixel_value, m.blue_mask),
                               green |-> Channel16(pixel_value, m.green_mask),
                               red   |-> Channel16(pixel_value, m.red_mask),
                               alpha |-> IF m.alpha_mask = 0 THEN 255
                                         ELSE Channel16(pixel_value, m.alpha_mask)]
                 IN Read16BitfieldLoop(data, j + 2, col + 1, image_width, m,
                                       Append(result, pixel))

\* A 16-bit decoder that takes every pixel for opaque, as in XRGB mode.
read_16_bitfield_opaque(data, image_width, red_mask, green_mask, blue_mask, alpha_mask) ==
    Read16BitfieldLoop(data, 0, 0, image_width,
        [red_mask |-> red_mask, green_mask |-> green_mask,
         blue_mask |-> blue_mask, alpha_mask |-> 0], << >>)

read_16_bitfield(data, image_width, red_mask, green_mask, blue_mask, alpha_mask) ==
    Read16BitfieldLoop(data, 0, 0, image_width,
        [red_mask |-> red_mask, green_mask |-> green_mask,
         blue_mask |-> blue_mask, alpha_mask |-> alpha_mask], << >>)

RECURSIVE Read32UncompressedLoop(_, _, _)
Read32UncompressedLoop(data, i, result) ==
    IF ~has_data(data, i) THEN Ok(result)
    ELSE IF ~CanRead(data, i, 4) THEN Panic
    ELSE Read32UncompressedLoop(data, i + 4,
            Append(result, [blue  |-> next_u8(data, i),
                            green |-> next_u8(data, i + 1),
                            red   |-> next_u8(data, i + 2),
                            alpha |-> 255]))

read_32_uncompressed(data) == Read32UncompressedLoop(data, 0, << >>)

RECURSIVE Read24UncompressedLoop(_, _, _, _, _)
Read24UncompressedLoop(data, i, column_index, image_width, result) ==
    IF ~has_data(data, i) THEN Ok(result)
    ELSE LET at_row == column_index = image_width
             col    == IF at_row THEN 0 ELSE column_index
             j      == IF at_row THEN align_with_u32(i) ELSE i
         IN IF at_row /\ ~has_data(data, j) THEN Ok(result)
            ELSE IF ~CanRead(data, j, 3) THEN Panic
            ELSE Read24UncompressedLoop(data, j + 3, col + 1, image_width,
                    Append(result, [blue  |-> next_u8(data, j),
                                    green |-> next_u8(data, j + 1),
                                    red   |-> next_u8(data, j + 2),
                                    alpha |-> 255]))

read_24_uncompressed(data, image_width) ==
    Read24UncompressedLoop(data, 0, 0, image_width, << >>)

RECURSIVE Read8UncompressedLoop(_, _, _, _, _, _)
Read8UncompressedLoop(data, i, column_index, image_width, image_palette, result) ==
    IF ~has_data(data, i) THEN Ok(result)
    ELSE LET at_row == column_index = image_width
             col    == IF at_row THEN 0 ELSE column_index
             j      == IF at_row THEN align_with_u32(i) ELSE i
         IN IF at_row /\ ~has_data(data, j) THEN Ok(result)
            ELSE IF ~CanRead(data, j, 1) THEN Panic
            ELSE LET pixel_index == next_u8(data, j)
                 IN IF pixel_index >= Len(image_palette) THEN Panic
                    ELSE Read8UncompressedLoop(data, j + 1, col + 1, image_width,
                            image_palette,
                            Append(result, image_palette[pixel_index + 1]))

read_8_uncompressed(data, image_width, image_palette) ==
    Read8UncompressedLoop(data, 0, 0, image_width, image_palette, << >>)

RECURSIVE Read4UncompressedLoop(_, _, _, _, _, _)
Read4UncompressedLoop(data, i, column_index, image_width, image_palette, result) ==
    IF ~has_data(data, i) THEN Ok(result)
    ELSE LET at_row == column_index >= image_width
             col    == IF at_row THEN 0 ELSE column_index
             j      == IF at_row THEN align_with_u32(i) ELSE i
         IN IF at_row /\ ~has_data(data, j) THEN Ok(result)
            ELSE IF ~CanRead(data, j, 1) THEN Panic
            ELSE LET pixels_indexes == next_u8(data, j)
                     p0_index == pixels_indexes \div 16
                     p1_index == pixels_indexes % 16
                 IN IF p0_index >= Len(image_palette)
                       \/ p1_index >= Len(image_palette) THEN Panic
                    ELSE LET r0 == Append(result, image_palette[p0_index + 1])
                         IN IF col + 1 < image_width
                            THEN Read4UncompressedLoop(data, j + 1, col + 2,
                                    image_width, image_palette,
                                    Append(r0, image_palette[p1_index + 1]))
                            ELSE Read4UncompressedLoop(data, j + 1, col + 1,
                                    image_width, image_palette, r0)

read_4_uncompressed(data, image_width, image_palette) ==
    Read4UncompressedLoop(data, 0, 0, image_width, image_palette, << >>)

\* The n_bits pixels of the low bits of byte, bit 0 first.
append_pixels_from_byte_lsb(palette, byte, n_bits) ==
    [k \in 1..n_bits |->
        IF (byte \div (2^(k - 1))) % 2 = 0 THEN palette[1] ELSE palette[2]]

\* append_pixels_from_byte: the n_bits pixels of the high bits of byte
\* (bit 7 first); it indexes palette[0] or palette[1].
append_pixels_from_byte(palette, byte, n_bits) ==
    [k \in 1..n_bits |->
        IF (byte \div (2^(8 - k))) % 2 = 0 THEN palette[1] ELSE palette[2]]

\* Whether append_pixels_from_byte finds the palette entries it indexes.
AppendPixelsInRange(palette, byte, n_bits) ==
    \A k \in 1..n_bits :
        IF (byte \div (2^(8 - k))) % 2 = 0 THEN Len(palette) >= 1
        ELSE Len(palette) >= 2

RECURSIVE Read1Row(_, _, _, _, _, _)
\* The bytes of one row: `full` bytes of 8 pixels, then the remaining pixels.
Read1Row(data, i, full, remaining_pixels, image_palette, result) ==
    IF full > 0
    THEN IF ~CanRead(data, i, 1)
            \/ ~AppendPixelsInRange(image_palette, next_u8(data, i), 8)
         THEN [ok |-> FALSE, i |-> i, val |-> << >>]
         ELSE Read1Row(data, i + 1, full - 1, remaining_pixels, image_palette,
                  result \o append_pixels_from_byte(image_palette,
                                                    next_u8(data, i), 8))
    ELSE IF remaining_pixels > 0
    THEN IF ~CanRead(data, i, 1)
            \/ ~AppendPixelsInRange(image_palette, next_u8(data, i),
                                    remaining_pixels)
         THEN [ok |-> FALSE, i |-> i, val |-> << >>]
         ELSE [ok |-> TRUE, i |-> i + 1,
               val |-> result \o append_pixels_from_byte(image_palette,
                                    next_u8(data, i), remaining_pixels)]
    ELSE [ok |-> TRUE, i |-> i, val |-> result]

RECURSIVE Read1UncompressedLoop(_, _, _, _, _, _)
Read1UncompressedLoop(data, i, rows, image_width, image_palette, result) ==
    IF rows <= 0 THEN Ok(result)
    ELSE LET full == IF image_width > 0 THEN image_width \div 8 ELSE 0
             row  == Read1Row(data, i, full, image_width - 8 * full,
                              image_palette, result)
         IN IF ~row.ok THEN Panic
            ELSE Read1UncompressedLoop(data, align_with_u32(row.i), rows - 1,
                                       image_width, image_palette, row.val)

read_1_uncompressed(data, image_width, image_height, image_palette) ==
    Read1UncompressedLoop(data, 0, image_height, image_width,
                          image_palette, << >>)

\* read_16_uncompressed is called by interpret_image_data (lib.rs:458) and
\* is not among the source files; it is modelled from the decode table of
\* the specification: 5-5-5 packed (bits 0-4 blue, 5-9 green, 10-14 red),
\* each rescaled from 0x1F to 0xFF, rows aligned, alpha 0xFF.
read_16_uncompressed(data, image_width) ==
    read_16_bitfield(data, image_width, 31744, 992, 31, 0)

---------------------------------------------------------------------------
(* Pixel encode engine (bitmap_write.rs).  image_width and image_height   *)
(* are >= 0 in every call the model makes, so that Rust's / and % on i32  *)
(* are \div and %.                                                         *)

\* pixel_iter.next().unwrap() over `count` pixels from index k (0-based)
\* panics when the pixels run out.
HasPixels(pixels, k, count) == k + count <= Len(pixels)

RECURSIVE Flatten(_)
Flatten(ss) == IF ss = << >> THEN << >> ELSE Head(ss) \o Flatten(Tail(ss))

\* (value as u32) << offset of a u32, no check: offset <= 31.
write_32_bitfield(pixels, red_mask, green_mask, blue_mask, alpha_mask) ==
    LET red_offset   == mask_offset_and_shifted(red_mask)[1]
        green_offset == mask_offset_and_shifted(green_mask)[1]
        blue_offset  == mask_offset_and_shifted(blue_mask)[1]
        alpha_offset == mask_offset_and_shifted(alpha_mask)[1]
        pixel_value(pixel) ==
            BitOr(BitOr(Shl(pixel.red, red_offset),
                        Shl(pixel.green, green_offset)),
                  BitOr(Shl(pixel.blue, blue_offset),
                        BitAnd(Shl(pixel.alpha, alpha_offset), alpha_mask)))
    IN Ok(Flatten([k \in 1..Len(pixels) |-> push_u32(pixel_value(pixels[k]))]))

\* (x as u16) << offset: a shift by 16 or more panics in the debug build and
\* shifts by offset % 16 in the release build.
Shl16Ok(offset) == offset < 16 \/ build = "release"
Shl16(x, offset) == (x * 2^(offset % 16)) % 65536

\* The u16 of one pixel of write_16_bitfield.
PixelValue16(pixel, red_mask, green_mask, blue_mask, alpha_mask) ==
    LET r == mask_offset_and_shifted(red_mask)
        g == mask_offset_and_shifted(green_mask)
        b == mask_offset_and_shifted(blue_mask)
        a == mask_offset_and_shifted(alpha_mask)
        red   == map_zero_based(pixel.red,   255, r[2])
        green == map_zero_based(pixel.green, 255, g[2])
        blue  == map_zero_based(pixel.blue,  255, b[2])
        alpha == map_zero_based(pixel.alpha, 255, a[2])
    IN \* A scaled channel above 255 (a mask wider than 8 bits) would be cast
       \* `as u8` out of range; no input of the model reaches it.
       IF red > 255 \/ green > 255 \/ blue > 255 \/ alpha > 255 THEN Panic
       ELSE IF ~(Shl16Ok(r[1]) /\ Shl16Ok(g[1]) /\ Shl16Ok(b[1]) /\ Shl16Ok(a[1]))
       THEN Panic
       ELSE Ok(BitOr(BitOr(Shl16(red, r[1]), Shl16(green, g[1])),
                     BitOr(Shl16(blue, b[1]),
                           BitAnd(Shl16(alpha, a[1]), AsU16(alpha_mask)))))

\* The rows of a row-padded encoder, in order: each row's bytes followed by
\* n_padding_bytes zeros; a row that panicked ends the encoding.
RECURSIVE WriteRows(_, _, _)
WriteRows(rows, n_padding_bytes, result) ==
    IF rows = << >> THEN Ok(result)
    ELSE IF ~Head(rows).ok THEN Panic
    ELSE WriteRows(Tail(rows), n_padding_bytes,
                   result \o Head(rows).val \o Zeros(n_padding_bytes))

\* The number of pixels a row consumes: for _ in 0 .. image_width.
PerRow(image_width) == IF image_width > 0 THEN image_width ELSE 0

write_16_bitfield(pixels, image_width, image_height, red_mask, green_mask, blue_mask, alpha_mask) ==
    LET bytes_per_row   == image_width * 2
        n_padding_bytes == pad_to_align(bytes_per_row, 4)
        value(k) == PixelValue16(pixels[k], red_mask, green_mask,
                                 blue_mask, alpha_mask)
        RowBytes(k) ==
            IF \E c \in 1..PerRow(image_width) : ~value(k + c).ok THEN Panic
            ELSE Ok(Flatten([c \in 1..PerRow(image_width) |->
                                push_u16(value(k + c).val)]))
    IN WriteRows([r \in 1..image_height |->
                    IF HasPixels(pixels, (r - 1) * PerRow(image_width),
                                 PerRow(image_width))
                    THEN RowBytes((r - 1) * PerRow(image_width)) ELSE Panic],
                 n_padding_bytes, << >>)

\* write_16_uncompressed is called by pixels_into_data (lib.rs:522) and is
\* not among the source files; it is modelled as the mirror of
\* read_16_uncompressed: 5-5-5 packed, rows padded to 4 bytes.
write_16_uncompressed(pixels, image_width, image_height) ==
    write_16_bitfield(pixels, image_width, image_height, 31744, 992, 31, 0)

write_32_uncompressed(pixels) ==
    Ok(Flatten([k \in 1..Len(pixels) |->
                  << pixels[k].blue, pixels[k].green, pixels[k].red, 0 >>]))

write_24_uncompressed(pixels, image_width, image_height) ==
    LET bytes_per_row   == image_width * 3
        n_padding_bytes == pad_to_align(bytes_per_row, 4)
        RowBytes(k) ==
            Ok(Flatten([c \in 1..PerRow(image_width) |->
                  << pixels[k + c].blue, pixels[k + c].green,
                     pixels[k + c].red >>]))
    IN WriteRows([r \in 1..image_height |->
                    IF HasPixels(pixels, (r - 1) * PerRow(image_width),
                                 PerRow(image_width))
                    THEN RowBytes((r - 1) * PerRow(image_width)) ELSE Panic],
                 n_padding_bytes, << >>)

write_8_uncompressed(pixels, image_palette, image_width, image_height) ==
    LET n_padding_bytes == pad_to_align(image_width, 4)
        RowBytes(k) ==
            Ok([c \in 1..PerRow(image_width) |->
                  AsU8(find_closest_by_index(pixels[k + c], image_palette))])
    IN IF image_palette = << >> /\ PerRow(image_width) > 0 /\ image_height > 0
       THEN Panic
       ELSE WriteRows([r \in 1..image_height |->
                         IF HasPixels(pixels, (r - 1) * PerRow(image_width),
                                      PerRow(image_width))
                         THEN RowBytes((r - 1) * PerRow(image_width)) ELSE Panic],
                      n_padding_bytes, << >>)

write_4_uncompressed(pixels, image_palette, image_width, image_height) ==
    LET bytes_per_row   == (image_width + 1) \div 2
        n_padding_bytes == pad_to_align(bytes_per_row, 4)
        index(k) == AsU8(find_closest_by_index(pixels[k], image_palette))
        pairs    == PerRow(image_width) \div 2
        RowBytes(k) ==
            Ok([c \in 1..pairs |->
                   BitOr((index(k + 2 * c - 1) * 16) % 256,
                         index(k + 2 * c) % 16)]
               \o (IF 2 * pairs < image_width
                   THEN << (index(k + 2 * pairs + 1) * 16) % 256 >>
                   ELSE << >>))
    IN IF image_palette = << >> /\ PerRow(image_width) > 0 /\ image_height > 0
       THEN Panic
       ELSE WriteRows([r \in 1..image_height |->
                         IF HasPixels(pixels, (r - 1) * PerRow(image_width),
                                      PerRow(image_width))
                         THEN RowBytes((r - 1) * PerRow(image_width)) ELSE Panic],
                      n_padding_bytes, << >>)

RECURSIVE BytePixelsLoop(_, _, _, _)
BytePixelsLoop(palette, pixels, mask, result) ==
    IF pixels = << >> THEN result
    ELSE BytePixelsLoop(palette, Tail(pixels), mask \div 2,
            IF find_closest_by_index(Head(pixels), palette) # 0
            THEN BitOr(result, mask) ELSE result)

\* The byte with the first pixel at bit 6.
byte_from_pixels_from_bit_6(palette, pixels) ==
    BytePixelsLoop(palette, pixels, 64, 0)

\* byte_from_pixels(palette, pixels): at most 8 pixels, bit 7 first.
byte_from_pixels(palette, pixels) == BytePixelsLoop(palette, pixels, 128, 0)

write_1_uncompressed(pixels, image_palette, image_width, image_height) ==
    LET remaining_pixels_per_row == image_width - (image_width \div 8) * 8
        bits_per_row    == image_width + pad_to_align(image_width, 8)
        bytes_per_row   == bits_per_row \div 8
        n_padding_bytes == pad_to_align(bytes_per_row, 4)
        full == image_width \div 8
        RowBytes(k) ==
            Ok([c \in 1..full |->
                   byte_from_pixels(image_palette,
                       Slice(pixels, k + 8 * (c - 1), k + 8 * c))]
               \o (IF remaining_pixels_per_row # 0
                   THEN << byte_from_pixels(image_palette,
                              Slice(pixels, k + 8 * full,
                                    k + 8 * full + remaining_pixels_per_row)) >>
                   ELSE << >>))
    IN IF image_palette = << >> /\ PerRow(image_width) > 0 /\ image_height > 0
       THEN Panic
       ELSE WriteRows([r \in 1..image_height |->
                         IF HasPixels(pixels, (r - 1) * PerRow(image_width),
                                      PerRow(image_width))
                         THEN RowBytes((r - 1) * PerRow(image_width)) ELSE Panic],
                      n_padding_bytes, << >>)

---------------------------------------------------------------------------
(* Header models                                                           *)

None       == [some |-> FALSE, entries |-> << >>]
Some(pal)  == [some |-> TRUE,  entries |-> pal]

\* BitmapInfoHeader::new.  The u32 products and sums panic on overflow in
\* the debug build and wrap in the release build.
BitmapInfoHeader_new(i_width, i_height, bits_per_pixel, compression) ==
    LET h_size == IF compression = BitFields THEN 56 ELSE 40
        \* x += pad_to_align!(x, alignment); of: x or the sum overflowed
        Padded(x, alignment) ==
            LET sum == AddU32(x.v, pad_to_align(x.v, alignment))
            IN [v |-> sum.v, of |-> x.of \/ sum.of]
        \* x / 8
        Bytes(x) == [v |-> Shr(x.v, 3), of |-> x.of]
        \* x * i_height
        Rows(x) ==
            LET product == MulU32(x.v, i_height)
            IN [v |-> product.v, of |-> x.of \/ product.of]
        bits_per_row  == Padded(MulU32(i_width, bits_per_pixel), 8)
        bytes_per_row == Padded(Bytes(bits_per_row), 4)
        Made(i_size) ==
            IF build = "debug" /\ i_size.of THEN Panic
            ELSE Ok([info_header_size   |-> h_size,
                     image_width        |-> i_width,
                     image_height       |-> i_height,
                     n_planes           |-> 1,
                     bits_per_pixel     |-> bits_per_pixel,
                     compression_type   |-> compression,
                     image_size         |-> i_size.v,
                     pixels_per_meter_x |-> 0,
                     pixels_per_meter_y |-> 0,
                     colors_used        |-> 0,
                     colors_important   |-> 0,
                     red_mask           |-> -16777216,
                     green_mask         |-> 16711680,
                     blue_mask          |-> 65280,
                     alpha_mask         |-> 255,
                     is_top_down        |-> FALSE])
    IN Made(Rows(bytes_per_row))

BitmapFileHeader_new(f_size, p_offset) ==
    [magic_number       |-> BMP_MAGIC_NUMBER,
     file_size          |-> f_size,
     reserved1          |-> 0,
     reserved2          |-> 0,
     pixel_array_offset |-> p_offset]

\* BitmapFileHeader::validate
validate(h) ==
    h.magic_number = BMP_MAGIC_NUMBER /\ h.reserved1 = 0 /\ h.reserved2 = 0

\* BitmapFileHeader::from_data on a slice of 14 bytes
BitmapFileHeader_from_data(data) ==
    [magic_number       |-> next_u16(data, 0),
     file_size          |-> next_u32(data, 2),
     reserved1          |-> next_u16(data, 6),
     reserved2          |-> next_u16(data, 8),
     pixel_array_offset |-> next_u32(data, 10)]

BitmapFileHeader_into_data(h) ==
    push_u16(h.magic_number) \o push_u32(h.file_size) \o push_u16(h.reserved1)
    \o push_u16(h.reserved2) \o push_u32(h.pixel_array_offset)

\* BitmapInfoHeader::from_data on the bytes after the file header.  The
\* reads panic when the bytes run out; image_height *= -1 overflows for
\* -2^31 (a panic in the debug build, -2^31 again in the release build).
BitmapInfoHeader_from_data(data) ==
    IF ~CanRead(data, 0, 40) THEN Panic
    ELSE LET size   == next_u32(data, 0)
             height == next_i32(data, 8)
             masks  == ULt(40, size)
         IN IF height = MinI32 /\ build = "debug" THEN Panic
            ELSE IF masks /\ ~CanRead(data, 40, 16) THEN Panic
            ELSE Ok([info_header_size   |-> size,
                     image_width        |-> next_i32(data, 4),
                     image_height       |-> IF height < 0 /\ height # MinI32
                                            THEN -height ELSE height,
                     n_planes           |-> next_u16(data, 12),
                     bits_per_pixel     |-> next_u16(data, 14),
                     compression_type   |-> next_u32(data, 16),
                     image_size         |-> next_u32(data, 20),
                     pixels_per_meter_x |-> next_i32(data, 24),
                     pixels_per_meter_y |-> next_i32(data, 28),
                     colors_used        |-> next_u32(data, 32),
                     colors_important   |-> next_u32(data, 36),
                     red_mask   |-> IF masks THEN next_u32(data, 40) ELSE 0,
                     green_mask |-> IF masks THEN next_u32(data, 44) ELSE 0,
                     blue_mask  |-> IF masks THEN next_u32(data, 48) ELSE 0,
                     alpha_mask |-> IF masks THEN next_u32(data, 52) ELSE 0,
                     is_top_down |-> height < 0])

BitmapInfoHeader_into_data(h) ==
    push_u32(h.info_header_size) \o push_i32(h.image_width)
    \o push_i32(h.image_height) \o push_u16(h.n_planes)
    \o push_u16(h.bits_per_pixel) \o push_u32(h.compression_type)
    \o push_u32(h.image_size) \o push_i32(h.pixels_per_meter_x)
    \o push_i32(h.pixels_per_meter_y) \o push_u32(h.colors_used)
    \o push_u32(h.colors_important)
    \o (IF ULt(40, h.info_header_size)
        THEN push_u32(h.red_mask) \o push_u32(h.green_mask)
             \o push_u32(h.blue_mask) \o push_u32(h.alpha_mask)
        ELSE << >>)

---------------------------------------------------------------------------
(* Decode and encode dispatch                                              *)

\* A dispatch that reads every other BitFields depth as 24-bit pixels.
interpret_image_data_lenient(data, info_header, palette) ==
    LET bits_per_pixel   == info_header.bits_per_pixel
        compression_type == info_header.compression_type
    IN IF compression_type = BitFields
       THEN IF bits_per_pixel = 32
            THEN read_32_bitfield(data, info_header.red_mask,
                     info_header.green_mask, info_header.blue_mask,
                     info_header.alpha_mask)
            ELSE IF bits_per_pixel = 16
            THEN read_16_bitfield(data, info_header.image_width,
                     info_header.red_mask, info_header.green_mask,
                     info_header.blue_mask, info_header.alpha_mask)
            ELSE read_24_uncompressed(data, info_header.image_width)
       ELSE IF compression_type = Uncompressed
       THEN IF bits_per_pixel = 32 THEN read_32_uncompressed(data)
            ELSE IF bits_per_pixel = 24
            THEN read_24_uncompressed(data, info_header.image_width)
            ELSE IF bits_per_pixel = 16
            THEN read_16_uncompressed(data, info_header.image_width)
            ELSE IF bits_per_pixel \in {8, 4, 1} /\ ~palette.some THEN Panic
            ELSE IF bits_per_pixel = 8
            THEN read_8_uncompressed(data, info_header.image_width,
                                     palette.entries)
            ELSE IF bits_per_pixel = 4
            THEN read_4_uncompressed(data, info_header.image_width,
                                     palette.entries)
            ELSE IF bits_per_pixel = 1
            THEN read_1_uncompressed(data, info_header.image_width,
                     info_header.image_height, palette.entries)
            ELSE Panic
       ELSE Panic

\* palette.as_ref().unwrap() panics on None.
interpret_image_data(data, info_header, palette) ==
    LET bits_per_pixel   == info_header.bits_per_pixel
        compression_type == info_header.compression_type
    IN IF compression_type = BitFields
       THEN IF bits_per_pixel = 32
            THEN read_32_bitfield(data, info_header.red_mask,
                     info_header.green_mask, info_header.blue_mask,
                     info_header.alpha_mask)
            ELSE IF bits_per_pixel = 16
            THEN read_16_bitfield(data, info_header.image_width,
                     info_header.red_mask, info_header.green_mask,
                     info_header.blue_mask, info_header.alpha_mask)
            ELSE Panic
       ELSE IF compression_type = Uncompressed
       THEN IF bits_per_pixel = 32 THEN read_32_uncompressed(data)
            ELSE IF bits_per_pixel = 24
            THEN read_24_uncompressed(data, info_header.image_width)
            ELSE IF bits_per_pixel = 16
            THEN read_16_uncompressed(data, info_header.image_width)
            ELSE IF bits_per_pixel \in {8, 4, 1} /\ ~palette.some THEN Panic
            ELSE IF bits_per_pixel = 8
            THEN read_8_uncompressed(data, info_header.image_width,
                                     palette.entries)
            ELSE IF bits_per_pixel = 4
            THEN read_4_uncompressed(data, info_header.image_width,
                                     palette.entries)
            ELSE IF bits_per_pixel = 1
            THEN read_1_uncompressed(data, info_header.image_width,
                     info_header.image_height, palette.entries)
            ELSE Panic
       ELSE Panic

\* The bytes appended to the buffer, or a panic.
pixels_into_data(pixels, bitmap_info, palette) ==
    LET bits_per_pixel == bitmap_info.bits_per_pixel
    IN IF bitmap_info.compression_type = BitFields
       THEN IF bits_per_pixel = 32
            THEN write_32_bitfield(pixels, bitmap_info.red_mask,
                     bitmap_info.green_mask, bitmap_info.blue_mask,
                     bitmap_info.alpha_mask)
            ELSE IF bits_per_pixel = 16
            THEN write_16_bitfield(pixels, bitmap_info.image_width,
                     bitmap_info.image_height, bitmap_info.red_mask,
                     bitmap_info.green_mask, bitmap_info.blue_mask,
                     bitmap_info.alpha_mask)
            ELSE Panic
       ELSE IF bitmap_info.compression_type = Uncompressed
       THEN IF bits_per_pixel = 32 THEN write_32_uncompressed(pixels)
            ELSE IF bits_per_pixel = 24
            THEN write_24_uncompressed(pixels, bitmap_info.image_width,
                                       bitmap_info.image_height)
            ELSE IF bits_per_pixel = 16
            THEN write_16_uncompressed(pixels, bitmap_info.image_width,
                                       bitmap_info.image_height)
            ELSE IF bits_per_pixel \in {8, 4, 1} /\ ~palette.some THEN Panic
            ELSE IF bits_per_pixel = 8
            THEN write_8_uncompressed(pixels, palette.entries,
                     bitmap_info.image_width, bitmap_info.image_height)
            ELSE IF bits_per_pixel = 4
            THEN write_4_uncompressed(pixels, palette.entries,
                     bitmap_info.image_width, bitmap_info.image_height)
            ELSE IF bits_per_pixel = 1
            THEN write_1_uncompressed(pixels, palette.entries,
                     bitmap_info.image_width, bitmap_info.image_height)
            ELSE Panic
       ELSE Panic

RECURSIVE ReadPaletteLoop(_, _, _)
ReadPaletteLoop(data, i, result) ==
    IF ~has_data(data, i) THEN Ok(result)
    ELSE IF ~CanRead(data, i, 4) THEN Panic
    ELSE ReadPaletteLoop(data, i + 4,
            Append(result, [blue  |-> next_u8(data, i),
                            green |-> next_u8(data, i + 1),
                            red   |-> next_u8(data, i + 2),
                            alpha |-> 255]))

read_palette(data) == ReadPaletteLoop(data, 0, << >>)

---------------------------------------------------------------------------
(* Bitmap aggregate                                                        *)

NoBitmap == [file_header |-> << >>, info_header |-> << >>,
             palette |-> None, image_data |-> << >>]

\* Headers whose file_size counts the pixel array alone.
create_headers_no_offset(width, height, bits_per_pixel, compression) ==
    LET Headers(info) ==
            IF ~info.ok THEN Panic
            ELSE LET p_offset  == FILE_HEADER_SIZE + info.val.info_header_size
                     file_size == AddU32(0, info.val.image_size)
                 IN IF build = "debug" /\ file_size.of THEN Panic
                    ELSE Ok(<< BitmapFileHeader_new(file_size.v, p_offset),
                               info.val >>)
    IN Headers(BitmapInfoHeader_new(width, height, bits_per_pixel, compression))

\* Bitmap::create_headers -> (file_header, info_header), or a panic.
create_headers(width, height, bits_per_pixel, compression) ==
    LET Headers(info) ==
            IF ~info.ok THEN Panic
            ELSE LET p_offset  == FILE_HEADER_SIZE + info.val.info_header_size
                     file_size == AddU32(p_offset, info.val.image_size)
                 IN IF build = "debug" /\ file_size.of THEN Panic
                    ELSE Ok(<< BitmapFileHeader_new(file_size.v, p_offset),
                               info.val >>)
    IN Headers(BitmapInfoHeader_new(width, height, bits_per_pixel, compression))

\* Bitmap::lazy_new
lazy_new(width, height, bits_per_pixel, compression) ==
    LET Lazy(h) ==
            IF ~h.ok THEN Panic
            ELSE Ok([file_header |-> h.val[1], info_header |-> h.val[2],
                     palette |-> None, image_data |-> << >>])
    IN Lazy(create_headers(width, height, bits_per_pixel, compression))

\* Bitmap::new, for width >= 0 and height >= 0 whose product is an i32.
new(width, height, bits_per_pixel, compression) ==
    LET n_pixels == width * height
        Filled(result) ==
            IF ~result.ok THEN Panic
            ELSE Ok([result.val EXCEPT
                       !.image_data = [k \in 1..n_pixels |-> transparent]])
    IN Filled(lazy_new(width, height, bits_per_pixel, compression))

lazy_new_default(width, height) == lazy_new(width, height, 32, BitFields)
new_default(width, height)      == new(width, height, 32, BitFields)

\* Outcomes of from_data and crop_to_rect.
OkBitmap(b)  == [kind |-> "Ok",    err |-> "",  bitmap |-> b]
Err(e)       == [kind |-> "Err",   err |-> e,   bitmap |-> NoBitmap]
Panicked     == [kind |-> "Panic", err |-> "",  bitmap |-> NoBitmap]
NoResult     == [kind |-> "None",  err |-> "",  bitmap |-> NoBitmap]

\* The declared size, whatever the compression.
ImageSizeInBytes_declared(info_header) == info_header.image_size

\* The size in bytes of the pixel array that from_data decodes (usize
\* arithmetic; image_width >= 0 in the buffers of the model).
ImageSizeInBytes(info_header) ==
    IF info_header.compression_type = Uncompressed
    THEN LET bits0         == info_header.image_width * info_header.bits_per_pixel
             bits_per_row  == bits0 + pad_to_align(bits0, 8)
             bytes0        == bits_per_row \div 8
             bytes_per_row == bytes0 + pad_to_align(bytes0, 4)
         IN bytes_per_row * info_header.image_height
    ELSE info_header.image_size

\* Bitmap::from_data
from_data(data) ==
    IF Len(data) < FILE_HEADER_SIZE THEN Panicked
    ELSE LET f_header == BitmapFileHeader_from_data(Slice(data, 0, FILE_HEADER_SIZE))
         IN
    IF ~validate(f_header) THEN Err("InvalidBitmap")
    ELSE LET info == BitmapInfoHeader_from_data(
                         Slice(data, FILE_HEADER_SIZE, Len(data)))
         IN
    IF ~info.ok THEN Panicked
    ELSE LET info_header == info.val
             offset      == f_header.pixel_array_offset
             indexed     == info_header.bits_per_pixel \in {1, 4, 8}
             palette_offset == FILE_HEADER_SIZE + info_header.info_header_size
         IN
    IF info_header.info_header_size \notin {40, 56}
    THEN Err("UnsupportedInfoHeaderSize")
    ELSE IF info_header.compression_type \notin {Uncompressed, BitFields}
    THEN Err("UnsupportedCompressionType")
    ELSE IF info_header.n_planes # 1 THEN Err("UnsupportedNumberOfPlanes")
    ELSE IF indexed /\ (offset < 0 \/ palette_offset > offset \/ offset > Len(data))
    THEN Panicked
    ELSE LET pal == IF indexed
                    THEN read_palette(Slice(data, palette_offset, offset))
                    ELSE Ok(<< >>)
             size == ImageSizeInBytes(info_header)
         IN
    IF ~pal.ok THEN Panicked
    ELSE IF offset < 0 \/ size < 0 \/ offset > Len(data)
            \/ size > Len(data) - offset
    THEN Panicked
    ELSE LET image_palette == IF indexed THEN Some(pal.val) ELSE None
             image_data == interpret_image_data(
                               Slice(data, offset, offset + size),
                               info_header, image_palette)
         IN IF ~image_data.ok THEN Panicked
            ELSE OkBitmap([file_header |-> f_header,
                           info_header |-> info_header,
                           palette     |-> image_palette,
                           image_data  |-> image_data.val])

\* An into_data that appends to the buffer of the call before instead of
\* starting from Vec::new().
into_data_appending(self) ==
    LET indexed == self.info_header.bits_per_pixel \in {1, 4, 8}
        headers == BitmapFileHeader_into_data(self.file_header)
                   \o BitmapInfoHeader_into_data(self.info_header)
        pixels  == pixels_into_data(self.image_data, self.info_header,
                                    self.palette)
    IN IF indexed \/ ~pixels.ok THEN Panic
       ELSE Ok(buffer \o headers
               \o Zeros(self.file_header.pixel_array_offset - Len(headers))
               \o pixels.val)

\* Bitmap::into_data: the byte buffer, or a panic (pixel_array_offset >= 0
\* as an integer in every aggregate of the model).
into_data(self) ==
    LET indexed == self.info_header.bits_per_pixel \in {1, 4, 8}
        headers == BitmapFileHeader_into_data(self.file_header)
                   \o BitmapInfoHeader_into_data(self.info_header)
        pal     == IF indexed /\ self.palette.some
                   THEN Flatten([k \in 1..Len(self.palette.entries) |->
                           << self.palette.entries[k].blue,
                              self.palette.entries[k].green,
                              self.palette.entries[k].red, 0 >>])
                   ELSE << >>
        data_size == Len(headers) + Len(pal)
        offset    == self.file_header.pixel_array_offset
        pixels    == pixels_into_data(self.image_data, self.info_header,
                                      self.palette)
    IN IF indexed /\ ~self.palette.some THEN Panic
       ELSE IF offset >= 0 /\ data_size > offset THEN Panic
       ELSE IF ~pixels.ok THEN Panic
       ELSE Ok(headers \o pal \o Zeros(offset - data_size) \o pixels.val)

RECURSIVE swap_slice_regions_copy(_, _, _, _)
\* A swap that loses the first region: it copies the second over it.
swap_slice_regions_copy(slice, i0, i1, n) ==
    IF n = 0 THEN Ok(slice)
    ELSE IF i0 >= Len(slice) \/ i1 >= Len(slice) THEN Panic
    ELSE swap_slice_regions_copy(
             [slice EXCEPT ![i0 + 1] = slice[i1 + 1]], i0 + 1, i1 + 1, n - 1)

RECURSIVE swap_slice_regions(_, _, _, _)
\* swap_slice_regions(slice, r0, r1) for the ranges r0 = i0 .. i0 + n and
\* r1 = i1 .. i1 + n: the slice after the swaps, or a panic on an index
\* outside it.
swap_slice_regions(slice, i0, i1, n) ==
    IF n = 0 THEN Ok(slice)
    ELSE IF i0 >= Len(slice) \/ i1 >= Len(slice) THEN Panic
    ELSE swap_slice_regions(
             [slice EXCEPT ![i0 + 1] = slice[i1 + 1], ![i1 + 1] = slice[i0 + 1]],
             i0 + 1, i1 + 1, n - 1)

RECURSIVE MirrorRows(_, _, _, _)
MirrorRows(data_slice, row_index, stride, image_height) ==
    IF row_index >= image_height \div 2 THEN Ok(data_slice)
    ELSE LET mirrored_row_index == image_height - row_index - 1
             swapped == swap_slice_regions(data_slice, row_index * stride,
                                           mirrored_row_index * stride, stride)
         IN IF ~swapped.ok THEN Panic
            ELSE MirrorRows(swapped.val, row_index + 1, stride, image_height)

\* Bitmap::mirror_vertically (image_width >= 0, image_height >= 0): the
\* aggregate after the call, or a panic.
mirror_vertically(self) ==
    LET rows == MirrorRows(self.image_data, 0, self.info_header.image_width,
                           self.info_header.image_height)
    IN IF ~rows.ok THEN Panic
       ELSE Ok([self EXCEPT !.image_data = rows.val])

\* The number of steps of the usize range a .. b of two u32 words.
URangeLen(a, b) == IF ULt(a, b) THEN b - a ELSE 0

RECURSIVE CopyRows(_, _, _, _, _, _, _)
\* The rows row_index .. row_end of copy_rect_from, each of the columns
\* x0 .. x0 + n_cols; indexing other.image_data outside its length panics.
CopyRows(other, stride, row_index, row_end, x0, n_cols, result) ==
    IF ~ULt(row_index, row_end) THEN Ok(result)
    ELSE IF n_cols > 0
            /\ row_index * stride + x0 + n_cols > Len(other.image_data)
    THEN Panic
    ELSE CopyRows(other, stride, row_index + 1, row_end, x0, n_cols,
             result \o [k \in 1..n_cols |->
                 other.image_data[row_index * stride + x0 + k]])

\* A copy that takes the columns from 0 on, whatever x0 is.
copy_rect_from_first_column(self, other, x0, y0, width, height) ==
    LET x1 == AddU32(x0, width)
        y1 == AddU32(y0, height)
    IN IF Len(self.image_data) # 0 THEN Panic
       ELSE IF build = "debug" /\ (x1.of \/ y1.of) THEN Panic
       ELSE LET rows == CopyRows(other, other.info_header.image_width,
                                 y0, y1.v, 0, URangeLen(x0, x1.v), << >>)
            IN IF ~rows.ok THEN Panic
               ELSE Ok([self EXCEPT !.image_data = rows.val])

\* Bitmap::copy_rect_from: self after the copy, or a panic.  The sums
\* x0 + width and y0 + height are u32 sums.
copy_rect_from(self, other, x0, y0, width, height) ==
    LET x1 == AddU32(x0, width)
        y1 == AddU32(y0, height)
    IN IF Len(self.image_data) # 0 THEN Panic
       ELSE IF build = "debug" /\ (x1.of \/ y1.of) THEN Panic
       ELSE LET rows == CopyRows(other, other.info_header.image_width,
                                 y0, y1.v, x0, URangeLen(x0, x1.v), << >>)
            IN IF ~rows.ok THEN Panic
               ELSE Ok([self EXCEPT !.image_data = rows.val])

\* Bitmap::crop_to_rect(x0, y0, width, height), on u32 words.
crop_to_rect(self, x0, y0, width, height) ==
    LET x1 == AddU32(x0, width)
        y1 == AddU32(y0, height)
    IN IF ULe(self.info_header.image_width, x0)
          \/ ULe(self.info_header.image_height, y0)
       THEN Err("InvalidOperation")
       ELSE IF build = "debug" /\ x1.of THEN Panicked
       ELSE IF ULt(self.info_header.image_width, x1.v)
       THEN Err("InvalidOperation")
       ELSE IF build = "debug" /\ y1.of THEN Panicked
       ELSE IF ULt(self.info_header.image_height, y1.v)
       THEN Err("InvalidOperation")
       ELSE LET Copied(copied) ==
                    IF ~copied.ok THEN Panicked ELSE OkBitmap(copied.val)
                Cropped(result) ==
                    IF ~result.ok THEN Panicked
                    ELSE Copied(copy_rect_from(result.val, self,
                                               x0, y0, width, height))
            IN Cropped(lazy_new_default(width, height))

RECURSIVE MirrorSliceLoop(_, _)
\* The swaps of mirror_slice from index_left on.
MirrorSliceLoop(slice, index_left) ==
    IF index_left >= Len(slice) \div 2 THEN slice
    ELSE MirrorSliceLoop(
             [slice EXCEPT ![index_left + 1] = slice[Len(slice) - index_left],
                           ![Len(slice) - index_left] = slice[index_left + 1]],
             index_left + 1)

\* mirror_slice(slice)
mirror_slice(slice) == MirrorSliceLoop(slice, 0)

RECURSIVE MirrorColumns(_, _, _, _)
\* The rows row_index .. image_height of mirror_horizontally; a row that
\* does not lie within the slice panics.
MirrorColumns(data_slice, row_index, stride, image_height) ==
    IF row_index >= image_height THEN Ok(data_slice)
    ELSE IF row_index * stride + stride > Len(data_slice) THEN Panic
    ELSE MirrorColumns(
             SubSeq(data_slice, 1, row_index * stride)
             \o mirror_slice(SubSeq(data_slice, row_index * stride + 1,
                                    row_index * stride + stride))
             \o SubSeq(data_slice, row_index * stride + stride + 1,
                       Len(data_slice)),
             row_index + 1, stride, image_height)

\* Bitmap::mirror_horizontally (image_width >= 0, image_height >= 0): the
\* aggregate after the call, or a panic.
mirror_horizontally(self) ==
    LET Mirrored(rows) ==
            IF ~rows.ok THEN Panic
            ELSE Ok([self EXCEPT !.image_data = rows.val])
    IN Mirrored(MirrorColumns(self.image_data, 0, self.info_header.image_width,
                              self.info_header.image_height))

\* Bitmap::color_to_alpha(color): the aggregate after the call.
color_to_alpha(self, color) ==
    [self EXCEPT !.image_data =
        [k \in 1..Len(self.image_data) |->
            IF same_color_as(self.image_data[k], color)
            THEN [self.image_data[k] EXCEPT !.alpha = 0]
            ELSE self.image_data[k]]]

\* Bitmap::convert_to(bits_per_pixel, compression): the aggregate after the
\* call, or a panic.
convert_to(self, bits_per_pixel, compression) ==
    LET Converted(flipped, h) ==
            IF ~flipped.ok \/ ~h.ok THEN Panic
            ELSE Ok([flipped.val EXCEPT !.file_header = h.val[1],
                                        !.info_header = h.val[2]])
    IN Converted(IF self.info_header.is_top_down
                 THEN mirror_vertically(self) ELSE Ok(self),
                 create_headers(self.info_header.image_width,
                                self.info_header.image_height,
                                bits_per_pixel, compression))

RECURSIVE ReplaceCells(_, _, _, _, _, _, _, _, _, _)
\* The cells k .. width * height of replace_rect_with_rect_from, row by
\* row: dest is self.image_data so far; an index outside other.image_data
\* or outside dest panics.
ReplaceCells(dest, dest_stride, other, src_x0, src_y0, dest_x0, dest_y0, width, height, k) ==
    IF k >= width * height THEN Ok(dest)
    ELSE LET src_data_index  == (src_y0 + (k \div width))
                                   * other.info_header.image_width
                                + src_x0 + (k % width)
             dest_data_index == (dest_y0 + (k \div width)) * dest_stride
                                + dest_x0 + (k % width)
         IN IF src_data_index >= Len(other.image_data)
               \/ dest_data_index >= Len(dest)
            THEN Panic
            ELSE ReplaceCells(
                     [dest EXCEPT ![dest_data_index + 1] =
                                      other.image_data[src_data_index + 1]],
                     dest_stride, other, src_x0, src_y0, dest_x0, dest_y0,
                     width, height, k + 1)

\* Bitmap::replace_rect_with_rect_from, for arguments >= 0 whose sums are
\* u32: self after the call, or a panic.
replace_rect_with_rect_from(self, other, src_x0, src_y0, dest_x0, dest_y0, width, height) ==
    LET Replaced(cells) ==
            IF ~cells.ok THEN Panic
            ELSE Ok([self EXCEPT !.image_data = cells.val])
    IN Replaced(ReplaceCells(self.image_data, self.info_header.image_width,
                             other, src_x0, src_y0, dest_x0, dest_y0,
                             width, height, 0))

\* A max that returns its first argument.
Max_first(a, b) == a

Max(a, b) == IF a >= b THEN a ELSE b

\* The two replace_rect_with_rect_from calls of a merge: image0 at the
\* origin of result, image1 at (dest_x0, dest_y0).
MergeInto(result, image0, image1, dest_x0, dest_y0) ==
    LET Second(first) ==
            IF ~first.ok THEN Panic
            ELSE replace_rect_with_rect_from(first.val, image1, 0, 0,
                     dest_x0, dest_y0, image1.info_header.image_width,
                     image1.info_header.image_height)
        First(made) ==
            IF ~made.ok THEN Panic
            ELSE Second(replace_rect_with_rect_from(made.val, image0, 0, 0,
                     0, 0, image0.info_header.image_width,
                     image0.info_header.image_height))
    IN First(result)

\* Bitmap::merge_horizontally, for images of width >= 0 and height >= 0.
merge_horizontally(image0, image1) ==
    MergeInto(new_default(image0.info_header.image_width
                            + image1.info_header.image_width,
                          Max(image0.info_header.image_height,
                              image1.info_header.image_height)),
              image0, image1, image0.info_header.image_width, 0)

\* Bitmap::merge_vertically, for images of width >= 0 and height >= 0.
merge_vertically(image0, image1) ==
    MergeInto(new_default(Max(image0.info_header.image_width,
                              image1.info_header.image_width),
                          image0.info_header.image_height
                            + image1.info_header.image_height),
              image0, image1, 0, image0.info_header.image_height)

---------------------------------------------------------------------------
(* Mask analyzer, applied to masks drawn from a bounded set                *)

\* Widest bit pattern of the masks drawn (the pattern is placed at every
\* offset 0..31, bits above bit 31 being lost).
MaskBits == 8

MaskInputs == {Shl(pattern, offset) :
                  pattern \in 0..(2^MaskBits - 1), offset \in 0..31}

InitMask ==
    /\ build = "release"
    /\ op = "start"
    /\ input \in MaskInputs
    /\ bitmap = NoBitmap
    /\ buffer = << >>
    /\ output = << >>

AnalyzeMask ==
    /\ op = "start"
    /\ op' = "mask_offset_and_shifted"
    /\ output' = mask_offset_and_shifted(input)
    /\ UNCHANGED << build, input, bitmap, buffer >>

SpecMask == InitMask /\ [][AnalyzeMask]_vars


\* C4: mask_offset_and_shifted(0) = (0, 0); for a nonzero mask it returns
\* the index of the lowest set bit (at most 31, so the scan ends) and the
\* mask shifted right by it, which is odd and gives the mask back when
\* shifted left; 0x0000FF00 gives (8, 0xFF) and 0xF0000000 gives (28, 0xF).
C4_MaskAnalysis ==
    op = "mask_offset_and_shifted" =>
        LET offset  == output[1]
            shifted == output[2]
        IN /\ input = 0 => output = << 0, 0 >>
           /\ input # 0 =>
                /\ offset \in Bits(input)
                /\ offset \in 0..31
                /\ \A i \in Bits(input) : offset <= i
                /\ Bits(shifted) = {i - offset : i \in Bits(input)}
                /\ 0 \in Bits(shifted)
                /\ {i + offset : i \in Bits(shifted)} = Bits(input)
           /\ input = 65280 => output = << 8, 255 >>
           /\ input = -268435456 => output = << 28, 15 >>

C4_Witness ==
    /\ op = "mask_offset_and_shifted"
    /\ input = -268435456
    /\ output = << 28, 15 >>

---------------------------------------------------------------------------
(* Channel scaling, applied to the cases of its contract                   *)

\* Maxima beyond 8 bits, as words: 0xFFFF, 2^31 - 1, 2^32 - 1.
WideMaxima == {65535, MaxI32, -1}

\* The cases drawn for one value v and one maximum m: (v, m, m), (v, 0, m),
\* (0, m, v) and, for m within a byte, (m, m, v).
ScaleCases(v, m) ==
    {[value |-> v, from |-> m, to |-> m],
     [value |-> v, from |-> 0, to |-> m],
     [value |-> 0, from |-> m, to |-> v]}
    \cup (IF m \in Byte THEN {[value |-> m, from |-> m, to |-> v]} ELSE {})

InitScale ==
    /\ build = "release"
    /\ op = "start"
    /\ \E v \in Byte, m \in Byte \cup WideMaxima : input \in ScaleCases(v, m)
    /\ bitmap = NoBitmap
    /\ buffer = << >>
    /\ output = << >>

Scale ==
    /\ op = "start"
    /\ op' = "map_zero_based"
    /\ output' = map_zero_based(input.value, input.from, input.to)
    /\ UNCHANGED << build, input, bitmap, buffer >>

SpecScale == InitScale /\ [][Scale]_vars

\* C5: scale(v, m, m) = v; scale(v, 0, to) = v; scale(0, from, to) = 0 for
\* from > 0; scale(from, from, to) = to for from in 1..0xFF and to <= 0xFF;
\* scale(0x1F, 0x1F, 0xFF) = 0xFF.
C5_ChannelScaling ==
    op = "map_zero_based" =>
        /\ input.from = input.to => output = input.value
        /\ input.from = 0 => output = input.value
        /\ (input.value = 0 /\ input.from # 0) => output = 0
        /\ (input.value = input.from /\ input.from \in 1..255
              /\ input.to \in 0..255) => output = input.to
        /\ (input.value = 31 /\ input.from = 31 /\ input.to = 255)
              => output = 255

C5_Witness ==
    /\ op = "map_zero_based"
    /\ input = [value |-> 31, from |-> 31, to |-> 255]
    /\ output = 255

---------------------------------------------------------------------------
(* Nearest palette colour, applied to sample pixels and palettes           *)

\* Longest palette drawn.
MaxPalette == 3

PaletteColours == {black, white, rgba(0, 0, 0, 0), rgba(2, 0, 0, 255),
                   transparent}

QueryPixels == {rgb(10, 10, 10), rgb(200, 200, 200), rgba(1, 0, 0, 0),
                rgba(1, 0, 0, 255), black, white, rgba(0, 0, 0, 7)}

Palettes == UNION {[1..n -> PaletteColours] : n \in 1..MaxPalette}

InitPalette ==
    /\ build = "release"
    /\ op = "start"
    /\ input \in [pixel : QueryPixels, palette : Palettes]
    /\ bitmap = NoBitmap
    /\ buffer = << >>
    /\ output = << >>

FindClosest ==
    /\ op = "start"
    /\ op' = "find_closest_by_index"
    /\ output' = find_closest_by_index(input.pixel, input.palette)
    /\ UNCHANGED << build, input, bitmap, buffer >>

SpecPalette == InitPalette /\ [][FindClosest]_vars

\* The squared Euclidean distance of two pixels over red, green and blue.
RgbDistance(p, q) ==
    (p.red - q.red) * (p.red - q.red)
    + (p.green - q.green) * (p.green - q.green)
    + (p.blue - q.blue) * (p.blue - q.blue)

WithAlpha(p, a) == [p EXCEPT !.alpha = a]

\* C7: find_closest_by_index returns an index whose entry is at the least
\* squared distance over (red, green, blue) from the pixel, the lowest such
\* index; the alpha of the pixel and of the entries does not change it;
\* with [black, white], (10,10,10) gives 0 and (200,200,200) gives 1.
C7_NearestPaletteEntry ==
    op = "find_closest_by_index" =>
        LET p   == input.pixel
            pal == input.palette
        IN /\ output \in 0..(Len(pal) - 1)
           /\ \A j \in 1..Len(pal) :
                 RgbDistance(p, pal[output + 1]) <= RgbDistance(p, pal[j])
           /\ \A j \in 1..output :
                 RgbDistance(p, pal[output + 1]) < RgbDistance(p, pal[j])
           /\ \A a \in {0, 128, 255} :
                 find_closest_by_index(WithAlpha(p, a),
                     [j \in 1..Len(pal) |-> WithAlpha(pal[j], 255 - a)])
                 = output
           /\ (pal = << black, white >> /\ p = rgb(10, 10, 10)) => output = 0
           /\ (pal = << black, white >> /\ p = rgb(200, 200, 200)) => output = 1

\* A tie between two entries, resolved to the lower index.
C7_Witness ==
    /\ op = "find_closest_by_index"
    /\ input.pixel = rgba(1, 0, 0, 0)
    /\ input.palette = << rgba(2, 0, 0, 255), black, white >>
    /\ output = 0

---------------------------------------------------------------------------
(* Encode then decode of a pixel grid under one info header                *)

\* Largest width and height of the grids drawn.
MaxWidth == 5
MaxHeight == 3

\* The supported (bits_per_pixel, compression_type) pairs.
Formats == {<< 32, BitFields >>, << 16, BitFields >>, << 32, Uncompressed >>,
            << 24, Uncompressed >>, << 16, Uncompressed >>,
            << 8, Uncompressed >>, << 4, Uncompressed >>, << 1, Uncompressed >>}

Masks(r, g, b, a) == [red |-> r, green |-> g, blue |-> b, alpha |-> a]

\* The masks BitmapInfoHeader::new gives every header (lib.rs 228-231).
GimpMasks == Masks(-16777216, 16711680, 65280, 255)

\* 32-bit layouts: the default, ARGB (0xFF000000 alpha) and XRGB (no alpha).
Masks32 == {GimpMasks,
            Masks(16711680, 65280, 255, -16777216),
            Masks(16711680, 65280, 255, 0)}

\* 16-bit layouts within the low 16 bits: 5-6-5, 5-5-5, 1-5-5-5, 4-4-4-4.
Masks16Low == {Masks(63488, 2016, 31, 0),
               Masks(31744, 992, 31, 0),
               Masks(31744, 992, 31, 32768),
               Masks(3840, 240, 15, 61440)}

\* A 16-bit BitFields header made by BitmapInfoHeader::new keeps GimpMasks.
Masks16 == Masks16Low \cup {GimpMasks}

MasksOf(format) ==
    IF format = << 32, BitFields >> THEN Masks32
    ELSE IF format = << 16, BitFields >> THEN Masks16
    ELSE {GimpMasks}

\* Colour tables as they lie in a file (blue, green, red, reserved), the
\* reserved byte not always 0: black and white; black, white and red; and
\* sixteen greys followed by red.
PaletteBytes ==
    {<< 0, 0, 0, 0,  255, 255, 255, 7 >>,
     << 0, 0, 0, 9,  255, 255, 255, 0,  0, 0, 255, 255 >>,
     Flatten([k \in 1..16 |-> << 17 * (k - 1), 17 * (k - 1), 17 * (k - 1), 0 >>])
        \o << 0, 0, 255, 0 >>}

PalettesOf(format) ==
    IF format[1] \in {8, 4, 1}
    THEN {Some(read_palette(bytes).val) : bytes \in PaletteBytes}
    ELSE {None}

\* The pixels the grids are filled with, in rotation.
SamplePixels == << rgba(255, 0, 0, 255), rgba(0, 255, 0, 0),
                   rgba(0, 0, 255, 128), rgba(10, 10, 10, 1),
                   rgba(200, 200, 200, 254), black, white,
                   rgba(18, 52, 86, 120) >>

Grid(n_pixels, shift) ==
    [k \in 1..n_pixels |->
        SamplePixels[((k - 1 + shift) % Len(SamplePixels)) + 1]]

InitCodec ==
    /\ build \in Builds
    /\ op = "start"
    /\ \E format \in Formats, width \in 0..MaxWidth, height \in 0..MaxHeight,
          shift \in 0..(Len(SamplePixels) - 1) :
          \E masks \in MasksOf(format), pal \in PalettesOf(format) :
             input = [info |-> [BitmapInfoHeader_new(width, height,
                                    format[1], format[2]).val
                                EXCEPT !.red_mask = masks.red,
                                       !.green_mask = masks.green,
                                       !.blue_mask = masks.blue,
                                       !.alpha_mask = masks.alpha],
                      palette |-> pal,
                      pixels |-> Grid(width * height, shift)]
    /\ bitmap = NoBitmap
    /\ buffer = << >>
    /\ output = << >>

\* pixels_into_data(&pixels, &mut buffer, &info, &palette)
Encode ==
    /\ op = "start"
    /\ LET bytes == pixels_into_data(input.pixels, input.info, input.palette)
       IN /\ op' = IF bytes.ok THEN "encoded" ELSE "panicked"
          /\ buffer' = IF bytes.ok THEN bytes.val ELSE buffer
    /\ UNCHANGED << build, input, bitmap, output >>

\* interpret_image_data(&buffer, &info, &palette)
Decode ==
    /\ op = "encoded"
    /\ op' = "decoded"
    /\ output' = interpret_image_data(buffer, input.info, input.palette)
    /\ UNCHANGED << build, input, bitmap, buffer >>

NextCodec == Encode \/ Decode

SpecCodec == InitCodec /\ [][NextCodec]_vars

SameRgb(p, q) == p.red = q.red /\ p.green = q.green /\ p.blue = q.blue

Is(bits, compression) ==
    /\ input.info.bits_per_pixel = bits
    /\ input.info.compression_type = compression

IsIndexed == input.info.bits_per_pixel \in {8, 4, 1}

\* A 16-bit format whose masks lie in the low 16 bits (5-5-5 when
\* uncompressed).
IsLow16 ==
    \/ Is(16, Uncompressed)
    \/ /\ Is(16, BitFields)
       /\ Masks(input.info.red_mask, input.info.green_mask,
                input.info.blue_mask, input.info.alpha_mask) \in Masks16Low

DecodedAll == op = "decoded" /\ output.ok
                 /\ Len(output.val) = Len(input.pixels)

\* A channel that went through a narrower field and back: never above the
\* original, and equal to it at the two ends of the range.
Quantised(decoded, original) ==
    /\ decoded <= original
    /\ original \in {0, 255} => decoded = original

HasAlphaChannel == Is(32, BitFields) /\ input.info.alpha_mask # 0

IsRowPadded ==
    Is(16, BitFields) \/ Is(24, Uncompressed) \/ IsIndexed

\* C6: the bytes a row-padded encoder (16-bit BitFields, 24-bit, 8-, 4-,
\* 1-bit) produces are image_height rows, each of
\* ceil(width * bits_per_pixel / 8) data bytes followed by the fewest zero
\* bytes (0..3) that make the row a multiple of 4; a row of width 5 at 24
\* bits is 15 data bytes and 1 zero byte.
C6_RowPadding ==
    (op \in {"encoded", "decoded"} /\ IsRowPadded) =>
        LET width      == input.info.image_width
            height     == input.info.image_height
            data_bytes == (width * input.info.bits_per_pixel + 7) \div 8
            padding    == CHOOSE n \in 0..3 :
                             /\ (data_bytes + n) % 4 = 0
                             /\ \A fewer \in 0..(n - 1) :
                                   (data_bytes + fewer) % 4 # 0
            row        == data_bytes + padding
        IN /\ Len(buffer) = height * row
           /\ \A r \in 0..(height - 1) : \A n \in 1..padding :
                 buffer[r * row + data_bytes + n] = 0
           /\ (Is(24, Uncompressed) /\ width = 5)
                 => data_bytes = 15 /\ padding = 1

C6_Witness ==
    /\ op = "encoded"
    /\ Is(24, Uncompressed)
    /\ input.info.image_width = 5
    /\ input.info.image_height = 2
    /\ Len(buffer) = 32
    /\ buffer[16] = 0
    /\ buffer[32] = 0

---------------------------------------------------------------------------
(* A bitmap made by new_default, painted, written out and read back        *)

\* Largest grid whose pixels are set one by one to any colour.
MaxPixels == 4

\* The colours a single pixel is set to.
PenColours == {rgba(255, 0, 0, 255), rgba(0, 255, 0, 0),
               rgba(18, 52, 86, 120)}

Init ==
    /\ build \in Builds
    /\ op = "start"
    /\ input = << >>
    /\ bitmap = NoBitmap
    /\ buffer = << >>
    /\ output = NoResult

\* let bitmap = Bitmap::new_default(width, height)
NewDefault ==
    /\ op = "start"
    /\ \E width \in 0..MaxWidth, height \in 0..MaxHeight :
          \E made \in {new_default(width, height)} :
             /\ op' = IF made.ok THEN "new" ELSE "panicked"
             /\ bitmap' = IF made.ok THEN made.val ELSE bitmap
    /\ UNCHANGED << build, input, buffer, output >>

\* bitmap.image_data[k] = colour
SetPixel ==
    /\ op = "new"
    /\ Len(bitmap.image_data) <= MaxPixels
    /\ \E k \in 1..Len(bitmap.image_data), colour \in PenColours :
          bitmap' = [bitmap EXCEPT !.image_data[k] = colour]
    /\ UNCHANGED << build, op, input, buffer, output >>

\* for pixel in bitmap.image_data.iter_mut() { *pixel = colour }
Fill ==
    /\ op = "new"
    /\ \E k \in 1..Len(SamplePixels) :
          bitmap' = [bitmap EXCEPT !.image_data =
                        [j \in 1..Len(bitmap.image_data) |-> SamplePixels[k]]]
    /\ UNCHANGED << build, op, input, buffer, output >>

\* Every pixel set, to the sample colours in rotation.
Paint ==
    /\ op = "new"
    /\ \E shift \in 0..(Len(SamplePixels) - 1) :
          bitmap' = [bitmap EXCEPT !.image_data =
                        Grid(Len(bitmap.image_data), shift)]
    /\ UNCHANGED << build, op, input, buffer, output >>

\* let data = bitmap.into_data()
IntoData ==
    /\ op = "new"
    /\ \E bytes \in {into_data(bitmap)} :
          /\ op' = IF bytes.ok THEN "encoded" ELSE "panicked"
          /\ buffer' = IF bytes.ok THEN bytes.val ELSE buffer
    /\ UNCHANGED << build, input, bitmap, output >>

\* let decoded = Bitmap::from_data(data)
FromData ==
    /\ op = "encoded"
    /\ op' = "decoded"
    /\ output' = from_data(buffer)
    /\ UNCHANGED << build, input, bitmap, buffer >>

Next == NewDefault \/ SetPixel \/ Fill \/ Paint \/ IntoData \/ FromData

Spec == Init /\ [][Next]_vars

\* C1: for a bitmap built by new_default(width, height) and any assignment
\* of RGBA values to its pixels, from_data(into_data()) succeeds and the
\* decoded bitmap has the same image_width, the same image_height and, pixel
\* by pixel in the same order, the same red, green, blue and alpha.
C1_DefaultRoundTrip ==
    op = "decoded" =>
        /\ output.kind = "Ok"
        /\ output.bitmap.info_header.image_width
              = bitmap.info_header.image_width
        /\ output.bitmap.info_header.image_height
              = bitmap.info_header.image_height
        /\ Len(output.bitmap.image_data) = Len(bitmap.image_data)
        /\ \A k \in 1..Len(bitmap.image_data) :
              LET p == bitmap.image_data[k]
                  q == output.bitmap.image_data[k]
              IN /\ q.red = p.red
                 /\ q.green = p.green
                 /\ q.blue = p.blue
                 /\ q.alpha = p.alpha

\* The 4x3 bitmap of one colour, written and read back.
C1_Witness ==
    /\ op = "decoded"
    /\ output.kind = "Ok"
    /\ bitmap.info_header.image_width = 4
    /\ bitmap.info_header.image_height = 3
    /\ \A k \in 1..12 : bitmap.image_data[k] = rgba(18, 52, 86, 120)
    /\ output.bitmap.image_data = bitmap.image_data

---------------------------------------------------------------------------
(* A painted bitmap mirrored vertically, once and again                    *)

\* bitmap.mirror_vertically(); the bitmap as it was before the first call
\* is kept in input.
MirrorVertically ==
    /\ op \in {"new", "mirrored once"}
    /\ \E mirrored \in {mirror_vertically(bitmap)} :
          /\ op' = IF ~mirrored.ok THEN "panicked"
                   ELSE IF op = "new" THEN "mirrored once"
                   ELSE "mirrored twice"
          /\ bitmap' = IF mirrored.ok THEN mirrored.val ELSE bitmap
    /\ input' = IF op = "new" THEN bitmap ELSE input
    /\ UNCHANGED << build, buffer, output >>

NextMirror == NewDefault \/ Paint \/ SetPixel \/ MirrorVertically

SpecMirror == Init /\ [][NextMirror]_vars

\* C8: on a bitmap whose pixel sequence has length image_width *
\* image_height, mirror_vertically applied twice gives back the pixel
\* sequence and both headers as they were; applied once it moves row i to
\* row image_height - 1 - i for every i, and leaves the headers alone.
C8_MirrorTwice ==
    /\ op = "mirrored twice" => bitmap = input
    /\ op = "mirrored once" =>
          LET width  == bitmap.info_header.image_width
              height == bitmap.info_header.image_height
          IN /\ bitmap.file_header = input.file_header
             /\ bitmap.info_header = input.info_header
             /\ Len(bitmap.image_data) = Len(input.image_data)
             /\ \A i \in 0..(height - 1) : \A c \in 1..width :
                   bitmap.image_data[(height - 1 - i) * width + c]
                      = input.image_data[i * width + c]
    /\ op # "panicked"

\* A 2x3 bitmap (odd height) with three different rows, mirrored twice.
C8_Witness ==
    /\ op = "mirrored twice"
    /\ bitmap.info_header.image_width = 2
    /\ bitmap.info_header.image_height = 3
    /\ bitmap.image_data[1] # bitmap.image_data[5]
    /\ bitmap = input

---------------------------------------------------------------------------
(* A painted bitmap cropped to a rectangle                                 *)

\* The u32 arguments drawn: 0 .. limit and 0xFFFFFFFF.
CropWords(limit) == 0..limit \cup {-1}

\* let cropped = bitmap.crop_to_rect(x0, y0, width, height); the arguments
\* are kept in input.
CropToRect ==
    /\ op = "new"
    /\ \E x0 \in CropWords(MaxWidth), y0 \in CropWords(MaxHeight),
          width \in CropWords(MaxWidth), height \in CropWords(MaxHeight) :
          /\ input' = [x0 |-> x0, y0 |-> y0, width |-> width, height |-> height]
          /\ output' = crop_to_rect(bitmap, x0, y0, width, height)
    /\ op' = "cropped"
    /\ UNCHANGED << build, bitmap, buffer >>

NextCrop == NewDefault \/ Paint \/ CropToRect

SpecCrop == Init /\ [][NextCrop]_vars

\* The value of a u32 word is at most n (n >= 0).
UAtMost(w, n) == w >= 0 /\ w <= n

\* The rectangle lies within the source, its sums taken without wrap-around.
RectInside ==
    /\ input.x0 >= 0 /\ input.width >= 0
    /\ input.y0 >= 0 /\ input.height >= 0
    /\ UAtMost(input.width, bitmap.info_header.image_width - input.x0)
    /\ UAtMost(input.height, bitmap.info_header.image_height - input.y0)

\* The cropped bitmap is the width x height sub-grid at (x0, y0).
CroppedIsSubGrid ==
    /\ output.kind = "Ok"
    /\ output.bitmap.info_header.image_width = input.width
    /\ output.bitmap.info_header.image_height = input.height
    /\ Len(output.bitmap.image_data) = input.width * input.height
    /\ \A j \in 0..(input.height - 1) : \A i \in 0..(input.width - 1) :
          output.bitmap.image_data[j * input.width + i + 1]
             = bitmap.image_data[(input.y0 + j) * bitmap.info_header.image_width
                                 + input.x0 + i + 1]

\* C9 as stated: for every rectangle lying fully within the W x H source,
\* crop_to_rect returns the width x height bitmap whose pixel (i, j) is the
\* source's pixel (x0 + i, y0 + j); the full rectangle (0, 0, W, H) gives
\* the source's grid, for every W and H.
C9_AsStated ==
    (op = "cropped" /\ RectInside) => CroppedIsSubGrid

\* C9, amended: for every rectangle lying fully within the W x H source
\* whose origin is inside it (x0 < W and y0 < H), crop_to_rect returns the
\* width x height bitmap whose pixel (i, j) is the source's pixel
\* (x0 + i, y0 + j), of width * height pixels; the full rectangle
\* (0, 0, W, H) gives the source's grid for every W >= 1 and H >= 1; with
\* x0 >= W or y0 >= H (so for every crop of a source of width 0 or height
\* 0) it returns InvalidOperation.
C9_CropWithin ==
    op = "cropped" =>
        LET W == bitmap.info_header.image_width
            H == bitmap.info_header.image_height
            origin_inside == UAtMost(input.x0, W - 1) /\ UAtMost(input.y0, H - 1)
        IN /\ (RectInside /\ origin_inside) => CroppedIsSubGrid
           /\ (input.x0 = 0 /\ input.y0 = 0 /\ input.width = W
                 /\ input.height = H /\ W >= 1 /\ H >= 1)
                 => /\ output.kind = "Ok"
                    /\ output.bitmap.image_data = bitmap.image_data
           /\ ~origin_inside
                 => output.kind = "Err" /\ output.err = "InvalidOperation"

\* The 2x2 rectangle at (1, 1) of a painted 4x3 bitmap.
C9_Witness ==
    /\ op = "cropped"
    /\ bitmap.info_header.image_width = 4
    /\ bitmap.info_header.image_height = 3
    /\ bitmap.image_data = Grid(12, 0)
    /\ input = [x0 |-> 1, y0 |-> 1, width |-> 2, height |-> 2]
    /\ output.kind = "Ok"
    /\ output.bitmap.image_data
          = << SamplePixels[6], SamplePixels[7],
               SamplePixels[2], SamplePixels[3] >>

\* C10 as stated: for all u32 x0, y0, width, height, crop_to_rect returns
\* InvalidOperation, and no bitmap, whenever the rectangle is not fully
\* inside the source, the sums x0 + width and y0 + height taken without
\* wrap-around.
C10_AsStated ==
    (op = "cropped" /\ ~RectInside) =>
        output.kind = "Err" /\ output.err = "InvalidOperation"

---------------------------------------------------------------------------
(* Channel scaling between the maxima of bit fields                        *)

\* The maxima of the channels of 1 to 8 bits.
FieldMaxima == {1, 3, 7, 15, 31, 63, 127, 255}

InitRescale ==
    /\ build = "release"
    /\ op = "start"
    /\ \E v \in Byte, from \in FieldMaxima, to \in FieldMaxima :
          input = [value |-> v, from |-> from, to |-> to]
    /\ bitmap = NoBitmap
    /\ buffer = << >>
    /\ output = << >>

\* map_zero_based(&mut value, from, to)
Rescale ==
    /\ op = "start"
    /\ op' = "map_zero_based"
    /\ output' = map_zero_based(input.value, input.from, input.to)
    /\ UNCHANGED << build, input, bitmap, buffer >>

SpecRescale == InitRescale /\ [][Rescale]_vars

\* value * to / from rounded to the nearest integer (halves upwards).
RoundedRescale(value, from, to) == (2 * value * to + from) \div (2 * from)

\* C19 as stated: for every 8-bit value and every fromMax > 0 with
\* fromMax # toMax (both at most 0xFF), map_zero_based returns
\* round(value * toMax / fromMax); scaling 3 from 0x1F to 0xFF gives 25.
\* (Stated here for the values within the source range, value <= fromMax,
\* whose rescaled value fits a byte.)
C19_AsStated ==
    (op = "map_zero_based" /\ input.from # input.to
        /\ input.value <= input.from) =>
        /\ output = RoundedRescale(input.value, input.from, input.to)
        /\ (input.value = 3 /\ input.from = 31 /\ input.to = 255)
              => output = 25

---------------------------------------------------------------------------
(* Files decoded by from_data and serialized again                         *)

\* Largest width and height of the images in the files drawn.
MaxFileWidth == 3
MaxFileHeight == 2

\* Colour tables of a well-formed file (reserved bytes 0): black and white;
\* white at both indices; black, white and white again; sixteen greys.
FilePalettes ==
    {<< 0, 0, 0, 0,  255, 255, 255, 0 >>,
     << 255, 255, 255, 0,  255, 255, 255, 0 >>,
     << 0, 0, 0, 0,  255, 255, 255, 0,  255, 255, 255, 0 >>,
     Flatten([k \in 1..16 |-> << 17 * (k - 1), 17 * (k - 1), 17 * (k - 1), 0 >>])}

FilePalettesOf(format) == IF format[1] \in {8, 4, 1} THEN FilePalettes ELSE {<< >>}

\* 32-bit masks of a file: the default layout, ARGB and XRGB; 16-bit masks
\* within the low 16 bits.
FileMasksOf(format) ==
    IF format = << 32, BitFields >> THEN Masks32
    ELSE IF format = << 16, BitFields >> THEN Masks16Low
    ELSE {GimpMasks}

\* The info header a file stores; is_top_down is not a field of the file.
StoredInfoHeader(d) ==
    [info_header_size   |-> d.header_size,
     image_width        |-> d.width,
     image_height       |-> d.stored_height,
     n_planes           |-> d.planes,
     bits_per_pixel     |-> d.bits,
     compression_type   |-> d.compression,
     image_size         |-> d.image_size,
     pixels_per_meter_x |-> 0,
     pixels_per_meter_y |-> 0,
     colors_used        |-> 0,
     colors_important   |-> 0,
     red_mask           |-> d.masks.red,
     green_mask         |-> d.masks.green,
     blue_mask          |-> d.masks.blue,
     alpha_mask         |-> d.masks.alpha,
     is_top_down        |-> FALSE]

\* The bytes of the file a description d stands for: file header, info
\* header (with the masks when header_size > 40), colour table, pixel
\* array, trailing bytes, cut to d.length bytes.
FileBytes(d) ==
    LET Laid(info_bytes) ==
            BitmapFileHeader_into_data(
                [magic_number       |-> d.magic,
                 file_size          |-> FILE_HEADER_SIZE + Len(info_bytes)
                                        + Len(d.palette) + Len(d.pixels)
                                        + Len(d.tail),
                 reserved1          |-> d.reserved1,
                 reserved2          |-> d.reserved2,
                 pixel_array_offset |-> FILE_HEADER_SIZE + Len(info_bytes)
                                        + Len(d.palette)])
            \o info_bytes \o d.palette \o d.pixels \o d.tail
        Cut(bytes) == SubSeq(bytes, 1, IF d.length < Len(bytes)
                                       THEN d.length ELSE Len(bytes))
    IN Cut(Laid(BitmapInfoHeader_into_data(StoredInfoHeader(d))))

\* The description of a well-formed file of one format: a width x height
\* grid of sample pixels as pixels_into_data lays it out (padding bytes and
\* unused bits 0), the pixel array ending the file.  The indices of an
\* indexed file are those of the colour table with black at index 0, so
\* that a table of equal colours is indexed at more than one entry.
WellFormed(format, width, height, masks, palette, shift) ==
    LET info == [BitmapInfoHeader_new(width, height, format[1], format[2]).val
                 EXCEPT !.red_mask = masks.red, !.green_mask = masks.green,
                        !.blue_mask = masks.blue, !.alpha_mask = masks.alpha]
        Described(pixels) ==
            [magic |-> BMP_MAGIC_NUMBER, reserved1 |-> 0, reserved2 |-> 0,
             header_size |-> info.info_header_size,
             width |-> width, height |-> height, stored_height |-> height,
             planes |-> 1, bits |-> format[1], compression |-> format[2],
             image_size |-> Len(pixels), masks |-> masks, palette |-> palette,
             pixels |-> pixels, laid_out |-> format,
             tail |-> << >>, data |-> << >>,
             length |-> FILE_HEADER_SIZE + info.info_header_size
                        + Len(palette) + Len(pixels)]
    IN Described(pixels_into_data(Grid(width * height, shift), info,
                     IF palette = << >> THEN None
                     ELSE Some([read_palette(palette).val
                                   EXCEPT ![1] = black])).val)

\* Values of the declared image_size: the size of the pixel array, 0, and
\* four bytes more or less.
DeclaredSizes(size) == {size, 0, size + 4} \cup (IF size >= 4 THEN {size - 4} ELSE {})

\* Variants of a well-formed file: rows stored top-down (negative height),
\* another declared image_size, four more bytes after the pixel array.
Variants(d) ==
    {[d EXCEPT !.stored_height = IF top_down THEN -d.height ELSE d.height,
               !.image_size = declared, !.tail = tail,
               !.length = d.length + Len(tail)] :
        top_down \in BOOLEAN, declared \in DeclaredSizes(d.image_size),
        tail \in {<< >>, << 1, 2, 3, 4 >>}}

\* Header fields that from_data rejects, next to the accepted value.
FaultyFields(d) ==
    {[d EXCEPT !.magic = magic, !.reserved1 = reserved1,
               !.reserved2 = reserved2, !.header_size = header_size,
               !.compression = compression, !.planes = planes] :
        magic \in {BMP_MAGIC_NUMBER, BMP_MAGIC_NUMBER - 1},
        reserved1 \in {0, 1}, reserved2 \in {0, 256},
        header_size \in {d.header_size, 12, 124},
        compression \in {d.compression, 1, 14},
        planes \in {1, 0}}

\* Files cut short: to nothing, inside each header, inside the pixel array
\* (and whole); with another header size, or a bit depth that is outside
\* the decode table (2) or outside it for BitFields (24).
Truncated(d) ==
    {[d EXCEPT !.magic = magic, !.header_size = header_size, !.bits = bits,
               !.length = n] :
        magic \in {BMP_MAGIC_NUMBER, BMP_MAGIC_NUMBER - 1},
        header_size \in {d.header_size, 12, 124},
        bits \in {d.bits, 2, 24},
        n \in {0, 2, 13, 14, 18, 53, 54, 69, d.length - 1, d.length}
               \cap 0..d.length}

\* The state that holds the file of description d.
Holds(d) ==
    input = [d EXCEPT !.data = FileBytes(d)]

InitDecode ==
    /\ build \in Builds
    /\ op = "start"
    /\ \E format \in Formats :
          \/ \E masks \in FileMasksOf(format), palette \in FilePalettesOf(format),
                 width \in 0..MaxFileWidth, height \in 0..MaxFileHeight :
                 \E base \in {WellFormed(format, width, height,
                                         masks, palette, 3)} :
                    \E d \in Variants(base) : Holds(d)
          \/ \E masks \in FileMasksOf(format), palette \in FilePalettesOf(format) :
                 \E base \in {WellFormed(format, 2, 2, masks, palette, 0)} :
                    \/ \E d \in FaultyFields(base) : Holds(d)
                    \/ \E d \in Truncated(base) : Holds(d)
    /\ bitmap = NoBitmap
    /\ buffer = << >>
    /\ output = NoResult

\* let decoded = Bitmap::from_data(data)
Load ==
    /\ op = "start"
    /\ op' = "decoded"
    /\ output' = from_data(input.data)
    /\ UNCHANGED << build, input, bitmap, buffer >>

\* let data = decoded.into_data()
Store ==
    /\ op = "decoded"
    /\ output.kind = "Ok"
    /\ \E bytes \in {into_data(output.bitmap)} :
          /\ op' = IF bytes.ok THEN "stored" ELSE "panicked"
          /\ buffer' = IF bytes.ok THEN bytes.val ELSE buffer
    /\ UNCHANGED << build, input, bitmap, output >>

NextDecode == Load \/ Store

SpecDecode == InitDecode /\ [][NextDecode]_vars

\* The header fields of the file in input that lie within its bytes.
Stores(first, width) == first + width <= Len(input.data)

\* The faults from_data rejects, each counted when its field is in the file.
BadContainer ==
    \/ Stores(0, 2) /\ input.magic # BMP_MAGIC_NUMBER
    \/ Stores(6, 2) /\ input.reserved1 # 0
    \/ Stores(8, 2) /\ input.reserved2 # 0
BadHeaderSize  == Stores(14, 4) /\ input.header_size \notin {40, 56}
BadCompression == Stores(30, 4) /\ input.compression \notin {Uncompressed, BitFields}
BadPlanes      == Stores(26, 2) /\ input.planes # 1

\* The error the validation order gives the file in input ("" for none).
ExpectedError ==
    IF BadContainer THEN "InvalidBitmap"
    ELSE IF BadHeaderSize THEN "UnsupportedInfoHeaderSize"
    ELSE IF BadCompression THEN "UnsupportedCompressionType"
    ELSE IF BadPlanes THEN "UnsupportedNumberOfPlanes"
    ELSE ""

\* C12 as stated: from_data returns an error and no bitmap for every input
\* buffer with a wrong magic number, a nonzero reserved field, an
\* info_header_size other than 40 and 56, a compression code other than 0
\* and 3, or a plane count other than 1; the error is that of the first
\* fault in this order.
C12_AsStated ==
    (op = "decoded" /\ ExpectedError # "") =>
        /\ output.kind = "Err"
        /\ output.err = ExpectedError
        /\ output.bitmap = NoBitmap

\* C13 as stated: every fault (malformed container, unsupported header
\* shape, compression or pixel format, truncated input) reaches the caller
\* of from_data as an error value; for no input buffer does from_data
\* abort instead of returning.
C13_AsStated ==
    op = "decoded" =>
        /\ output.kind \in {"Ok", "Err"}
        /\ (ExpectedError # "" \/ << input.bits, input.compression >> \notin Formats)
              => output.kind = "Err"

\* The bytes of a row of width pixels of the given depth, rounded up to a
\* multiple of 4.
RowSize(width, bits) == ((width * bits + 31) \div 32) * 4

\* The file in input is well formed: accepted header fields, a supported
\* format, the pixel array laid out for it (padding and unused bits 0), of
\* the declared size and ending the file.
IsWellFormed ==
    /\ ExpectedError = ""
    /\ << input.bits, input.compression >> = input.laid_out
    /\ input.header_size = (IF input.compression = BitFields THEN 56 ELSE 40)
    /\ input.image_size = Len(input.pixels)
    /\ Len(input.pixels) = input.height * RowSize(input.width, input.bits)
    /\ (input.palette # << >>) = (input.bits \in {8, 4, 1})
    /\ input.tail = << >>
    /\ Len(input.data) = FILE_HEADER_SIZE + input.header_size
                          + Len(input.palette) + Len(input.pixels)

\* C17 as stated: for every well-formed BMP buffer in a supported format,
\* including buffers that store a negative height and indexed buffers
\* whose palette holds the same colour at two indices, from_data followed
\* by into_data returns a buffer identical to the input.
C17_AsStated ==
    IsWellFormed =>
        /\ op = "decoded" => output.kind = "Ok"
        /\ op # "panicked"
        /\ op = "stored" => buffer = input.data

\* Where the pixel array of the file in input begins.
PixelArrayOffset ==
    FILE_HEADER_SIZE + (IF input.header_size > 40 THEN 56 ELSE 40)
    + Len(input.palette)

\* The headers and the colour table are in the file, the header fields are
\* accepted and the format is in the decode table.
IsDecodable ==
    /\ ExpectedError = ""
    /\ << input.bits, input.compression >> \in Formats
    /\ (input.palette # << >>) = (input.bits \in {8, 4, 1})
    /\ Len(input.data) >= PixelArrayOffset

\* C20: from_data decodes the declared image_size bytes of pixel array
\* only when the compression is BitFields; when it is Uncompressed the
\* declared image_size is ignored, whatever its value, and the bytes decoded
\* are height * (ceil(width * bitsPerPixel / 8) rounded up to a multiple
\* of 4).  So the decode succeeds exactly when that many bytes follow the
\* pixel array offset, and its pixels are those of these bytes.
C20_DecodedSize ==
    (op = "decoded" /\ IsDecodable) =>
        LET used == IF input.compression = BitFields THEN input.image_size
                    ELSE input.height * RowSize(input.width, input.bits)
        IN /\ (output.kind = "Ok") = (PixelArrayOffset + used <= Len(input.data))
           /\ output.kind = "Ok" =>
                 /\ output.bitmap.image_data
                       = interpret_image_data(
                             Slice(input.data, PixelArrayOffset,
                                   PixelArrayOffset + used),
                             output.bitmap.info_header,
                             output.bitmap.palette).val
                 /\ input.compression = Uncompressed =>
                       Len(output.bitmap.image_data)
                          = input.width * input.height
                 /\ input.bits = 32 /\ input.compression = BitFields =>
                       Len(output.bitmap.image_data) = input.image_size \div 4

\* A 3x2 24-bit Uncompressed file that declares image_size 0, decoded to
\* its six pixels.
C20_Witness ==
    /\ op = "decoded"
    /\ IsDecodable
    /\ input.bits = 24 /\ input.compression = Uncompressed
    /\ input.width = 3 /\ input.height = 2
    /\ input.image_size = 0
    /\ Len(input.pixels) = 24
    /\ output.kind = "Ok"
    /\ Len(output.bitmap.image_data) = 6

---------------------------------------------------------------------------
(* Bitmaps reached through the public interface                            *)

\* Largest bitmap constructed, and the number of calls made (the
\* constructor is the first).
MaxApiWidth  == 2
MaxApiHeight == 2
MaxCalls     == 2
\* The number of consecutive into_data calls.
MaxRepeats   == 2

\* What the caller has done so far: the last call, the number of calls made
\* (the constructor included), the number of into_data calls in a row, and the bitmap
\* and the returned buffer as they were before the last into_data.
Called(last, calls, repeats, before, previous) ==
    [last |-> last, calls |-> calls, repeats |-> repeats,
     before |-> before, previous |-> previous]

InitApi ==
    /\ build \in Builds
    /\ op = "start"
    /\ input = Called("none", 0, 0, NoBitmap, << >>)
    /\ bitmap = NoBitmap
    /\ buffer = << >>
    /\ output = NoResult

\* The state after a call that returns the bitmap `made` (or panics).
Returns(name, made) ==
    /\ op' = IF made.ok THEN "built" ELSE "panicked"
    /\ bitmap' = IF made.ok THEN made.val ELSE bitmap
    /\ input' = Called(name, input.calls + 1, 0, input.before, input.previous)
    /\ UNCHANGED << build, buffer, output >>

\* Bitmap::new(width, height, bits_per_pixel, compression); new_default is
\* the call with (32, BitFields).
ApiNew ==
    /\ op = "start"
    /\ \E width \in {0, MaxApiWidth}, height \in {1, MaxApiHeight},
          format \in Formats :
          \E made \in {new(width, height, format[1], format[2])} :
             Returns("new", made)

\* Bitmap::lazy_new(width, height, bits_per_pixel, compression);
\* lazy_new_default is the call with (32, BitFields).
ApiLazyNew ==
    /\ op = "start"
    /\ \E width \in {0, MaxApiWidth}, height \in {1, MaxApiHeight},
          format \in Formats :
          \E made \in {lazy_new(width, height, format[1], format[2])} :
             Returns("lazy_new", made)

\* Bitmap::from_data(data) on a file of any format, bottom-up or top-down;
\* a BitFields file declares its image_size right, too small or too large.
ApiFromData ==
    /\ op = "start"
    /\ \E format \in Formats :
          \E masks \in FileMasksOf(format), palette \in FilePalettesOf(format) :
             \E base \in {WellFormed(format, MaxApiWidth, MaxApiHeight, masks,
                                     palette, 0)} :
                \E d \in Variants(base) :
                   /\ d.tail = << >>
                   /\ format[2] = BitFields \/ d.image_size = base.image_size
                   /\ \E read \in {from_data(FileBytes(d))} :
                         /\ read.kind = "Ok"
                         /\ Returns("from_data", Ok(read.bitmap))

\* A call may follow while fewer than MaxCalls were made.
MayCall == op = "built" /\ input.calls < MaxCalls

\* for (k, pixel) in bitmap.image_data.iter_mut().enumerate() { ... }
ApiPaint ==
    /\ MayCall
    /\ input.last # "paint"
    /\ Returns("paint", Ok([bitmap EXCEPT !.image_data =
                               Grid(Len(bitmap.image_data), 0)]))

\* bitmap.convert_to(bits_per_pixel, compression), to a format with and
\* one without a palette, and one with masks.
ApiConvertTo ==
    /\ MayCall
    /\ \E format \in {<< 24, Uncompressed >>, << 8, Uncompressed >>,
                      << 16, BitFields >>} :
          \E made \in {convert_to(bitmap, format[1], format[2])} :
             Returns("convert_to", made)

\* bitmap.mirror_vertically()
ApiMirrorVertically ==
    /\ MayCall
    /\ \E made \in {mirror_vertically(bitmap)} :
          Returns("mirror_vertically", made)

\* bitmap.mirror_horizontally()
ApiMirrorHorizontally ==
    /\ MayCall
    /\ \E made \in {mirror_horizontally(bitmap)} :
          Returns("mirror_horizontally", made)

\* bitmap.color_to_alpha(color)
ApiColorToAlpha ==
    /\ MayCall
    /\ \E color \in {SamplePixels[1]} :
          Returns("color_to_alpha", Ok(color_to_alpha(bitmap, color)))

\* let bitmap = bitmap.crop_to_rect(x0, y0, width, height)?, for rectangles
\* whose x0 + width and y0 + height fit a u32.
ApiCropToRect ==
    /\ MayCall
    /\ \E x0 \in 0..1, y0 \in 0..1,
          width \in {MaxApiWidth - 1}, height \in {MaxApiHeight - 1} :
          \E cropped \in {crop_to_rect(bitmap, x0, y0, width, height)} :
             /\ cropped.kind # "Err"
             /\ Returns("crop_to_rect",
                        IF cropped.kind = "Ok" THEN Ok(cropped.bitmap)
                        ELSE Panic)

\* let bitmap = Bitmap::merge_horizontally(&bitmap, &bitmap)
ApiMergeHorizontally ==
    /\ MayCall
    /\ \E made \in {merge_horizontally(bitmap, bitmap)} :
          Returns("merge_horizontally", made)

\* let bitmap = Bitmap::merge_vertically(&bitmap, &bitmap)
ApiMergeVertically ==
    /\ MayCall
    /\ \E made \in {merge_vertically(bitmap, bitmap)} :
          Returns("merge_vertically", made)

\* let data = bitmap.into_data()
ApiIntoData ==
    /\ op = "built"
    /\ input.repeats < MaxRepeats
    /\ \E bytes \in {into_data(bitmap)} :
          /\ op' = IF bytes.ok THEN "built" ELSE "panicked"
          /\ buffer' = IF bytes.ok THEN bytes.val ELSE buffer
          /\ input' = Called("into_data", input.calls,
                             IF bytes.ok THEN input.repeats + 1
                             ELSE input.repeats,
                             bitmap, buffer)
    /\ UNCHANGED << build, bitmap, output >>

NextApi ==
    \/ ApiNew \/ ApiLazyNew \/ ApiFromData
    \/ ApiPaint \/ ApiConvertTo
    \/ ApiMirrorVertically \/ ApiMirrorHorizontally \/ ApiColorToAlpha
    \/ ApiCropToRect \/ ApiMergeHorizontally \/ ApiMergeVertically
    \/ ApiIntoData

SpecApi == InitApi /\ [][NextApi]_vars

\* The calls that keep the size of the bitmap, with into_data between and
\* after them.
NextSerialize ==
    \/ ApiNew \/ ApiLazyNew \/ ApiFromData
    \/ ApiPaint \/ ApiConvertTo
    \/ ApiMirrorVertically \/ ApiMirrorHorizontally \/ ApiColorToAlpha
    \/ ApiIntoData

SpecSerialize == InitApi /\ [][NextSerialize]_vars

\* C11 as stated: in every bitmap reached through the public interface the
\* length of image_data is image_width * image_height.
C11_AsStated ==
    op = "built" =>
        Len(bitmap.image_data)
           = bitmap.info_header.image_width * bitmap.info_header.image_height

\* C15 as stated: in every bitmap reached through the public interface the
\* palette is present if and only if bits_per_pixel <= 8.
C15_AsStated ==
    op = "built" =>
        (bitmap.palette.some) = (bitmap.info_header.bits_per_pixel <= 8)

---------------------------------------------------------------------------
(* A decoded file converted to other formats                               *)

\* The number of convert_to calls in a row.
MaxConversions == 2

InitConvert ==
    /\ build \in Builds
    /\ op = "start"
    /\ \E format \in Formats :
          \E masks \in FileMasksOf(format), palette \in FilePalettesOf(format),
             height \in 1..MaxFileHeight :
             \E base \in {WellFormed(format, MaxFileWidth - 1, height, masks,
                                     palette, 0)} :
                \E d \in Variants(base) : Holds(d)
    /\ bitmap = NoBitmap
    /\ buffer = << >>
    /\ output = NoResult

\* bitmap.convert_to(bits_per_pixel, compression) on the decoded bitmap;
\* output keeps the bitmap as from_data returned it and buffer the formats
\* asked for so far.
ConvertTo ==
    /\ op \in {"decoded", "converted"}
    /\ output.kind = "Ok"
    /\ Len(buffer) < MaxConversions
    /\ \E format \in Formats :
          \E made \in {convert_to(IF op = "decoded" THEN output.bitmap
                                  ELSE bitmap, format[1], format[2])} :
             /\ op' = IF made.ok THEN "converted" ELSE "panicked"
             /\ bitmap' = IF made.ok THEN made.val ELSE bitmap
             /\ buffer' = Append(buffer, format)
    /\ UNCHANGED << build, input, output >>

NextConvert == Load \/ ConvertTo

SpecConvert == InitConvert /\ [][NextConvert]_vars

\* Row i of before is row height - 1 - i of after, for the cells that the
\* pixel sequence holds.
RowsReversed(after, before, width, height) ==
    \A i \in 0..(height - 1), c \in 1..width :
        (i * width + c <= Len(before)
         /\ (height - 1 - i) * width + c <= Len(before)) =>
            after[(height - 1 - i) * width + c] = before[i * width + c]

\* C16 as stated: convert_to on a bitmap whose is_top_down flag is set
\* reverses the order of the pixel rows exactly once and clears the flag,
\* so further convert_to calls do not flip the grid again; on a bitmap
\* whose flag is clear the grid is unchanged; image_width, image_height
\* and the pixel count are preserved and the headers carry the requested
\* bits_per_pixel and compression.
C16_AsStated ==
    /\ op # "panicked"
    /\ op = "converted" =>
          LET original == output.bitmap
              width    == original.info_header.image_width
              height   == original.info_header.image_height
              asked    == buffer[Len(buffer)]
          IN /\ ~bitmap.info_header.is_top_down
             /\ bitmap.info_header.image_width = width
             /\ bitmap.info_header.image_height = height
             /\ Len(bitmap.image_data) = Len(original.image_data)
             /\ bitmap.info_header.bits_per_pixel = asked[1]
             /\ bitmap.info_header.compression_type = asked[2]
             /\ IF original.info_header.is_top_down
                THEN RowsReversed(bitmap.image_data, original.image_data,
                                  width, height)
                ELSE bitmap.image_data = original.image_data

---------------------------------------------------------------------------
(* The decode and encode dispatch on (compression, bits per pixel)         *)

\* Largest grid handed to the dispatch.
MaxDispatchWidth  == 2
MaxDispatchHeight == 2

\* Compression codes (every CompressionType and the unassigned 14) and bit
\* depths drawn.
DispatchCompressions == {0, 1, 2, 3, 4, 5, 11, 12, 13, 14}
DispatchDepths       == {0, 1, 2, 4, 8, 16, 24, 32, 64}

InitDispatch ==
    /\ build \in Builds
    /\ op = "start"
    /\ \E compression \in DispatchCompressions, bits \in DispatchDepths,
          width \in 0..MaxDispatchWidth, height \in 0..MaxDispatchHeight,
          shift \in {0, 3} :
          \E masks \in (IF << bits, compression >> \in Formats
                        THEN FileMasksOf(<< bits, compression >>)
                        ELSE Masks16Low),
             pal \in (IF bits <= 8
                      THEN {Some(read_palette(bytes).val) : bytes \in PaletteBytes}
                      ELSE {None}) :
             \E made \in {BitmapInfoHeader_new(width, height, bits,
                              IF compression = BitFields THEN BitFields
                              ELSE Uncompressed)} :
                input = [info |-> [made.val
                                   EXCEPT !.compression_type = compression,
                                          !.red_mask = masks.red,
                                          !.green_mask = masks.green,
                                          !.blue_mask = masks.blue,
                                          !.alpha_mask = masks.alpha],
                         palette |-> pal,
                         pixels |-> Grid(width * height, shift)]
    /\ bitmap = NoBitmap
    /\ buffer = Panic
    /\ output = Panic

\* pixels_into_data(&pixels, &mut data, &info, &palette); buffer keeps
\* whether it returned, and the bytes.
DispatchEncode ==
    /\ op = "start"
    /\ op' = "encoded"
    /\ buffer' = pixels_into_data(input.pixels, input.info, input.palette)
    /\ UNCHANGED << build, input, bitmap, output >>

\* interpret_image_data(&data, &info, &palette) on the bytes the encoder
\* gave, or on a zeroed pixel array of the header's image_size.
DispatchDecode ==
    /\ op = "encoded"
    /\ op' = "decoded"
    /\ output' = interpret_image_data(
                     IF buffer.ok THEN buffer.val
                     ELSE Zeros(input.info.image_size),
                     input.info, input.palette)
    /\ UNCHANGED << build, input, bitmap, buffer >>

NextDispatch == DispatchEncode \/ DispatchDecode

SpecDispatch == InitDispatch /\ [][NextDispatch]_vars

\* The pairs (compression, bitsPerPixel) of the two dispatch tables.
AcceptedPairs ==
    {<< BitFields, 32 >>, << BitFields, 16 >>, << Uncompressed, 32 >>,
     << Uncompressed, 24 >>, << Uncompressed, 16 >>, << Uncompressed, 8 >>,
     << Uncompressed, 4 >>, << Uncompressed, 1 >>}

\* C18: the decode dispatch and the encode dispatch accept exactly the same
\* set of (compression, bitsPerPixel) pairs - (BitFields,32),
\* (BitFields,16), (Uncompressed,32), (Uncompressed,24), (Uncompressed,16),
\* (Uncompressed,8), (Uncompressed,4), (Uncompressed,1) - and for every
\* other pair both interpret_image_data and pixels_into_data fault without
\* producing any pixel or any pixel byte.
C18_SameDispatchTable ==
    LET accepted == << input.info.compression_type,
                       input.info.bits_per_pixel >> \in AcceptedPairs
    IN /\ op \in {"encoded", "decoded"} =>
             /\ buffer.ok = accepted
             /\ ~accepted => buffer.val = << >>
       /\ op = "decoded" =>
             /\ output.ok = accepted
             /\ output.ok = buffer.ok
             /\ ~accepted => output.val = << >>

\* A 2x2 grid under (BitFields, 24), with the masks and the 16-byte pixel
\* array of a well-formed header: both dispatches fault.
C18_Witness ==
    /\ op = "decoded"
    /\ input.info.bits_per_pixel = 24
    /\ input.info.compression_type = BitFields
    /\ input.info.image_size = 16
    /\ Len(input.pixels) = 4
    /\ ~buffer.ok /\ buffer.val = << >>
    /\ ~output.ok /\ output.val = << >>

---------------------------------------------------------------------------
(* 32-bit BitFields with channel masks of any width and position          *)

\* Contiguous channel masks of 8 bits or fewer: 5-5-5-1 and 5-6-5 in the
\* low half, 4-4-4-4, 5-5-5 from bit 15 up, and the byte-wide default.
NarrowMasks ==
    {Masks(31744, 992, 31, 32768), Masks(63488, 2016, 31, 0),
     Masks(3840, 240, 15, 61440), Masks(1040187392, 32505856, 1015808, 0),
     GimpMasks}

\* Pixel words: no bit, every bit, and two mixed patterns.
PixelWords == {0, -1, 305419896, -1412567295}

InitNarrow ==
    /\ build \in Builds
    /\ op = "start"
    /\ \E masks \in NarrowMasks, word \in PixelWords,
          k \in 1..Len(SamplePixels) :
          input = [masks |-> masks, word |-> word, pixel |-> SamplePixels[k]]
    /\ bitmap = NoBitmap
    /\ buffer = << >>
    /\ output = << >>

\* read_32_bitfield on the four bytes of one pixel word
ExtractChannels ==
    /\ op = "start"
    /\ op' = "read"
    /\ output' = read_32_bitfield(push_u32(input.word), input.masks.red,
                     input.masks.green, input.masks.blue,
                     input.masks.alpha).val
    /\ UNCHANGED << build, input, bitmap, buffer >>

\* write_32_bitfield of one pixel
PlaceChannels ==
    /\ op = "start"
    /\ op' = "written"
    /\ buffer' = write_32_bitfield(<< input.pixel >>, input.masks.red,
                     input.masks.green, input.masks.blue,
                     input.masks.alpha).val
    /\ UNCHANGED << build, input, bitmap, output >>

NextNarrow == ExtractChannels \/ PlaceChannels

SpecNarrow == InitNarrow /\ [][NextNarrow]_vars

\* (word & mask) >> offset
Extracted(word, mask) ==
    Shr(BitAnd(word, mask), mask_offset_and_shifted(mask)[1])

\* (value << offset) & mask
Placed(value, mask) ==
    BitAnd(Shl(value, mask_offset_and_shifted(mask)[1]), mask)

\* C21 as stated: for 32-bit BitFields and every contiguous channel mask of
\* up to 8 bits at any position, decoding extracts each channel as
\* (word & mask) >> offset and encoding places each channel as
\* (value << offset) & mask, so no bit outside a channel's mask reaches the
\* decoded channel or is set by the encoded channel.
C21_AsStated ==
    /\ op = "read" =>
          /\ Len(output) = 1
          /\ output[1].red = Extracted(input.word, input.masks.red)
          /\ output[1].green = Extracted(input.word, input.masks.green)
          /\ output[1].blue = Extracted(input.word, input.masks.blue)
          /\ input.masks.alpha # 0 =>
                output[1].alpha = Extracted(input.word, input.masks.alpha)
    /\ op = "written" =>
          /\ Len(buffer) = 4
          /\ FromBytes(buffer[1], buffer[2], buffer[3], buffer[4])
                = BitOr(BitOr(Placed(input.pixel.red, input.masks.red),
                              Placed(input.pixel.green, input.masks.green)),
                        BitOr(Placed(input.pixel.blue, input.masks.blue),
                              Placed(input.pixel.alpha, input.masks.alpha)))

\* C22 as stated: when from_data decodes an indexed image the palette
\* starts at byte 14 + info_header_size and has 2 entries for 1-bit, 16 for
\* 4-bit and 256 for 8-bit, each read as blue, green, red plus one ignored
\* byte, whatever pixel_array_offset is.
C22_AsStated ==
    (op = "decoded" /\ output.kind = "Ok"
       /\ output.bitmap.info_header.bits_per_pixel \in {1, 4, 8}) =>
        LET bits    == output.bitmap.info_header.bits_per_pixel
            start   == FILE_HEADER_SIZE
                       + output.bitmap.info_header.info_header_size
            entries == output.bitmap.palette.entries
        IN /\ output.bitmap.palette.some
           /\ Len(entries) = 2 ^ bits
           /\ \A k \in 1..Len(entries) :
                 entries[k] = rgba(input.data[start + 4 * k - 1],
                                   input.data[start + 4 * k - 2],
                                   input.data[start + 4 * k - 3], 255)

---------------------------------------------------------------------------
(* Two painted bitmaps merged                                              *)

\* image0 and image1: new_default bitmaps of any size up to MaxApiWidth x
\* MaxApiHeight, painted with different rotations of the sample colours.
InitMerge ==
    /\ build \in Builds
    /\ op = "start"
    /\ \E wa \in 0..MaxApiWidth, ha \in 0..MaxApiHeight,
          wb \in 0..MaxApiWidth, hb \in 0..MaxApiHeight :
          \E a \in {new_default(wa, ha)}, b \in {new_default(wb, hb)} :
             input = [image0 |-> [a.val EXCEPT !.image_data = Grid(wa * ha, 0)],
                      image1 |-> [b.val EXCEPT !.image_data = Grid(wb * hb, 3)]]
    /\ bitmap = NoBitmap
    /\ buffer = << >>
    /\ output = Panic

\* let merged = Bitmap::merge_horizontally(&image0, &image1)
MergeHorizontally ==
    /\ op = "start"
    /\ op' = "merged horizontally"
    /\ output' = merge_horizontally(input.image0, input.image1)
    /\ UNCHANGED << build, input, bitmap, buffer >>

\* let merged = Bitmap::merge_vertically(&image0, &image1)
MergeVertically ==
    /\ op = "start"
    /\ op' = "merged vertically"
    /\ output' = merge_vertically(input.image0, input.image1)
    /\ UNCHANGED << build, input, bitmap, buffer >>

NextMerge == MergeHorizontally \/ MergeVertically

SpecMerge == InitMerge /\ [][NextMerge]_vars

\* Pixel (x, y) of a bitmap holding a full grid.
PixelAt(b, x, y) == b.image_data[y * b.info_header.image_width + x + 1]

\* The merged bitmap has the given size and holds image0 at the origin,
\* image1 at (x1, y1) and the transparent fill everywhere else.
IsMergeOf(merged, width, height, x1, y1) ==
    LET a  == input.image0
        b  == input.image1
        wa == a.info_header.image_width
        ha == a.info_header.image_height
        wb == b.info_header.image_width
        hb == b.info_header.image_height
    IN /\ merged.info_header.image_width = width
       /\ merged.info_header.image_height = height
       /\ Len(merged.image_data) = width * height
       /\ \A x \in 0..(width - 1), y \in 0..(height - 1) :
             PixelAt(merged, x, y) =
                IF x >= x1 /\ x < x1 + wb /\ y >= y1 /\ y < y1 + hb
                THEN PixelAt(b, x - x1, y - y1)
                ELSE IF x < wa /\ y < ha THEN PixelAt(a, x, y)
                ELSE rgba(255, 255, 255, 0)

\* C23: for two source bitmaps a (wa x ha) and b (wb x hb) holding full
\* grids, merge_horizontally returns a new bitmap of width wa + wb and
\* height max(ha, hb) with a at the origin, b at column offset wa and the
\* transparent fill (red, green, blue 0xFF, alpha 0x00) in every other
\* cell; merge_vertically is the same with width max(wa, wb), height
\* ha + hb and b at row offset ha; neither source is modified.
C23_Merge ==
    LET wa == input.image0.info_header.image_width
        ha == input.image0.info_header.image_height
        wb == input.image1.info_header.image_width
        hb == input.image1.info_header.image_height
    IN /\ op = "merged horizontally" =>
             /\ output.ok
             /\ IsMergeOf(output.val, wa + wb, IF ha >= hb THEN ha ELSE hb,
                          wa, 0)
       /\ op = "merged vertically" =>
             /\ output.ok
             /\ IsMergeOf(output.val, IF wa >= wb THEN wa ELSE wb, ha + hb,
                          0, ha)

\* A 2x1 and a 1x2 bitmap merged horizontally: 3x2 with two fill cells
\* under the first.
C23_Witness ==
    /\ op = "merged horizontally"
    /\ input.image0.info_header.image_width = 2
    /\ input.image0.info_header.image_height = 1
    /\ input.image1.info_header.image_width = 1
    /\ input.image1.info_header.image_height = 2
    /\ output.ok
    /\ Len(output.val.image_data) = 6
    /\ PixelAt(output.val, 0, 1) = transparent
    /\ PixelAt(output.val, 2, 1) = input.image1.image_data[2]
    /\ PixelAt(output.val, 1, 0) = input.image0.image_data[2]

---------------------------------------------------------------------------
(* The info header parsed for every kind of stored height                  *)

\* Stored heights: the ends of the i32 range and small values of both
\* signs.
StoredHeights == {MinI32, MinI32 + 1, -3, -2, -1, 0, 1, 2, MaxI32}

InitHeader ==
    /\ build \in Builds
    /\ op = "start"
    /\ \E format \in Formats, width \in 0..MaxFileWidth,
          height \in StoredHeights :
          \E made \in {BitmapInfoHeader_new(width, 1, format[1], format[2])} :
             input = [stored_height |-> height,
                      data |-> BitmapInfoHeader_into_data(
                                   [made.val EXCEPT !.image_height = height])]
    /\ bitmap = NoBitmap
    /\ buffer = << >>
    /\ output = Panic

\* let info_header = BitmapInfoHeader::from_data(&data)
ParseInfoHeader ==
    /\ op = "start"
    /\ op' = "parsed"
    /\ output' = BitmapInfoHeader_from_data(input.data)
    /\ UNCHANGED << build, input, bitmap, buffer >>

SpecHeader == InitHeader /\ [][ParseInfoHeader]_vars

\* C24 as stated: for every signed 32-bit stored height h, parsing the info
\* header records is_top_down = (h < 0) and image_height = |h|, so
\* image_height is never negative after parsing, h = -2^31 included.
C24_AsStated ==
    op = "parsed" =>
        /\ output.ok
        /\ output.val.is_top_down = (input.stored_height < 0)
        /\ output.val.image_height >= 0
        /\ output.val.image_height
              = IF input.stored_height < 0 THEN 0 - input.stored_height
                ELSE input.stored_height

---------------------------------------------------------------------------
(* The row decoders on raw pixel-array bytes, whole and cut short          *)

MaxRowWidth == 9
MaxRowHeight == 2
MaxCut == 5

RowFormats == {<< 16, BitFields >>, << 24, Uncompressed >>,
               << 8, Uncompressed >>, << 4, Uncompressed >>,
               << 1, Uncompressed >>}

\* Bytes with every nibble and bit pattern of interest, used in rotation.
ByteSamples == << 30, 165, 128, 127, 1, 240, 255, 0, 76 >>

RowData(n_bytes, shift) ==
    [k \in 1..n_bytes |-> ByteSamples[((k - 1 + shift) % Len(ByteSamples)) + 1]]

\* A colour table of n_entries distinct colours.
Ramp(n_entries, step) ==
    [k \in 1..n_entries |->
        rgba(((k - 1) * step) % 256, (k - 1) % 256, (255 - (k - 1)) % 256, 0)]

\* Colour tables with one entry for every index of the depth.
FullPalettes(bits) ==
    IF bits \in {8, 4, 1}
    THEN {Some(Ramp(2^bits, step)) : step \in {1, 7}}
    ELSE {None}

\* interpret_image_data is about to be called with the pixel array of a
\* width x height image, `cut` bytes short of its full size.
InitRows ==
    /\ build \in Builds
    /\ op = "encoded"
    /\ \E format \in RowFormats, width \in 0..MaxRowWidth,
          height \in 1..MaxRowHeight, shift \in 0..2, cut \in 0..MaxCut :
          \E pal \in FullPalettes(format[1]),
             full \in {RowData(height * RowSize(width, format[1]), shift)} :
             /\ cut <= Len(full)
             /\ input = [info |-> BitmapInfoHeader_new(width, height,
                                      format[1], format[2]).val,
                         palette |-> pal,
                         full |-> full]
             /\ buffer = SubSeq(full, 1, Len(full) - cut)
    /\ bitmap = NoBitmap
    /\ output = << >>

SpecRows == InitRows /\ [][Decode]_vars

\* The index that pixel x of a row has in the bytes of that row.
IndexAt(row, x, bits) ==
    LET byte == row[((x * bits) \div 8) + 1]
    IN (byte \div (2^(8 - bits - ((x * bits) % 8)))) % (2^bits)

\* C25: a 4-bit row yields the high nibble of each byte, then the low one,
\* a 1-bit row the bits of each byte from bit 7 down to bit 0, bit value b
\* selecting palette[b]; pixels past the width are dropped and every row
\* starts on a 4-byte boundary, so each row yields exactly width pixels.
C25_SubByteRows ==
    (op = "decoded" /\ input.info.bits_per_pixel \in {4, 1}
       /\ buffer = input.full) =>
        LET bits   == input.info.bits_per_pixel
            width  == input.info.image_width
            height == input.info.image_height
            size   == RowSize(width, bits)
        IN /\ output.ok
           /\ Len(output.val) = width * height
           /\ \A y \in 0..(height - 1), x \in 0..(width - 1) :
                 output.val[y * width + x + 1]
                    = input.palette.entries[
                          IndexAt(SubSeq(buffer, y * size + 1, (y + 1) * size),
                                  x, bits) + 1]

\* Two rows of 9 one-bit pixels decoded, the first byte being 1010 0101.
C25_Witness ==
    /\ op = "decoded"
    /\ input.info.bits_per_pixel = 1
    /\ input.info.image_width = 9
    /\ input.info.image_height = 2
    /\ buffer = input.full
    /\ buffer[1] = 165
    /\ output.ok
    /\ Len(output.val) = 18
    /\ output.val[1] = input.palette.entries[2]
    /\ output.val[2] = input.palette.entries[1]
    /\ output.val[8] = input.palette.entries[2]

\* The bytes of a row that hold pixels.
PixelRowBytes(width, bits) == (width * bits + 7) \div 8

RowPaddedDecoder == input.info.bits_per_pixel \in {16, 24, 8, 4}
                  /\ input.info.image_width >= 1

\* The bytes decoded that belong to a row begun but not completed.
BytesIntoRow ==
    Len(buffer) % RowSize(input.info.image_width, input.info.bits_per_pixel)

\* The data end after a complete row: in its padding, or after it.
EndsAtRowBoundary ==
    \/ BytesIntoRow = 0
    \/ BytesIntoRow >= PixelRowBytes(input.info.image_width,
                                     input.info.bits_per_pixel)

\* The data end inside the bytes of one pixel.
EndsMidPixel ==
    /\ ~EndsAtRowBoundary
    /\ (BytesIntoRow * 8) % input.info.bits_per_pixel # 0

CompleteRows ==
    LET size == RowSize(input.info.image_width, input.info.bits_per_pixel)
    IN (Len(buffer) \div size) + (IF BytesIntoRow > 0 /\ EndsAtRowBoundary
                                  THEN 1 ELSE 0)

\* C26 as stated: a row-padded decoder stops normally only when the data
\* end at a row boundary.
C26_AsStated ==
    (op = "decoded" /\ RowPaddedDecoder /\ output.ok) => EndsAtRowBoundary

\* C26, amended: when the data end after a complete row, its padding
\* missing or incomplete, the decoder returns the pixels of the complete
\* rows; when they end between two pixels of a row it returns the complete
\* rows and the pixels of the row begun; when they end inside a pixel it
\* faults.
C26_EndOfData ==
    (op = "decoded" /\ RowPaddedDecoder) =>
        LET width == input.info.image_width
            bits  == input.info.bits_per_pixel
            whole == interpret_image_data(input.full, input.info, input.palette)
        IN IF EndsAtRowBoundary
           THEN /\ output.ok
                /\ whole.ok
                /\ output.val = SubSeq(whole.val, 1, CompleteRows * width)
           ELSE IF EndsMidPixel THEN ~output.ok
           ELSE /\ output.ok
                /\ Len(output.val)
                      = CompleteRows * width + (BytesIntoRow * 8) \div bits

\* Two rows of two 24-bit pixels, the second with one of its two padding
\* bytes: both rows are returned.
C26_Witness ==
    /\ op = "decoded"
    /\ input.info.bits_per_pixel = 24
    /\ input.info.image_width = 2
    /\ input.info.image_height = 2
    /\ Len(buffer) = 15
    /\ output.ok
    /\ Len(output.val) = 4

---------------------------------------------------------------------------
(* Serialization of a converted bitmap                                     *)

\* let data = bitmap.into_data() on the converted bitmap; output takes the
\* returned buffer, or the panic.
StoreConverted ==
    /\ op = "converted"
    /\ \E bytes \in {into_data(bitmap)} :
          /\ op' = IF bytes.ok THEN "stored" ELSE "not stored"
          /\ output' = bytes
    /\ UNCHANGED << build, input, bitmap, buffer >>

NextReserialize == Load \/ ConvertTo \/ StoreConverted

SpecReserialize == InitConvert /\ [][NextReserialize]_vars

\* C27 as stated: after convert_to(bits_per_pixel, compression) for any
\* supported pair, into_data returns a buffer, and the info header in it
\* declares the requested bits_per_pixel and compression.
C27_AsStated ==
    op \in {"stored", "not stored"} =>
        /\ output.ok
        /\ next_u16(output.val, FILE_HEADER_SIZE + 14)
              = buffer[Len(buffer)][1]
        /\ next_u32(output.val, FILE_HEADER_SIZE + 16)
              = buffer[Len(buffer)][2]

---------------------------------------------------------------------------
(* Direct-colour bitmaps: new, then conversions among the direct-colour    *)
(* formats, mirrors and color_to_alpha, with into_data between and after   *)

DirectFormats == {<< 32, BitFields >>, << 32, Uncompressed >>,
                  << 24, Uncompressed >>}

\* let mut bitmap = Bitmap::new(width, height, bits_per_pixel, compression)
\* has returned; the calls are counted from here, so that MaxCalls calls
\* may follow the constructor.
InitDirect ==
    /\ build \in Builds
    /\ op = "built"
    /\ input = Called("new", 0, 0, NoBitmap, << >>)
    /\ \E width \in 0..MaxApiWidth, height \in 0..MaxApiHeight,
          format \in DirectFormats :
          \E made \in {new(width, height, format[1], format[2])} :
             made.ok /\ bitmap = made.val
    /\ buffer = << >>
    /\ output = NoResult

\* bitmap.convert_to(bits_per_pixel, compression) to a direct-colour format
ApiConvertDirect ==
    /\ MayCall
    /\ \E format \in DirectFormats :
          \E made \in {convert_to(bitmap, format[1], format[2])} :
             Returns("convert_to", made)

NextDirect ==
    \/ ApiConvertDirect
    \/ ApiMirrorVertically \/ ApiMirrorHorizontally \/ ApiColorToAlpha
    \/ ApiIntoData

SpecDirect == InitDirect /\ [][NextDirect]_vars

\* C28: for a bitmap made by new in a direct-colour format and taken
\* through convert_to among these formats, the mirrors and color_to_alpha,
\* no call faults and into_data returns file_size bytes, with the pixel
\* array at pixel_array_offset = 14 + info_header_size and image_size bytes
\* long; the header fields written in the buffer are these same numbers.
C28_SizesAgree ==
    /\ op # "panicked"
    /\ input.last = "into_data" =>
          /\ Len(buffer) = bitmap.file_header.file_size
          /\ bitmap.file_header.pixel_array_offset
                = FILE_HEADER_SIZE + bitmap.info_header.info_header_size
          /\ Len(buffer) - bitmap.file_header.pixel_array_offset
                = bitmap.info_header.image_size
          /\ next_u32(buffer, 2) = Len(buffer)
          /\ next_u32(buffer, 10) = bitmap.file_header.pixel_array_offset
          /\ next_u32(buffer, FILE_HEADER_SIZE + 20)
                = bitmap.info_header.image_size

\* A 1x2 bitmap serialized as 24-bit after two calls: 54 bytes of headers
\* and two rows of 3 bytes padded to 4.
C28_Witness ==
    /\ input.last = "into_data"
    /\ input.calls = 2
    /\ bitmap.info_header.bits_per_pixel = 24
    /\ bitmap.info_header.image_width = 1
    /\ bitmap.info_header.image_height = 2
    /\ Len(buffer) = 62

---------------------------------------------------------------------------
(* Indexed formats with a colour table of 2^bits entries: encode, decode   *)

IndexedFormats == {<< 8, Uncompressed >>, << 4, Uncompressed >>,
                   << 1, Uncompressed >>}

\* A colour table of n_entries entries, every third one a sample colour
\* (so that some grid pixels are in the table, some more than once).
Swatch(n_entries, shift) ==
    [k \in 1..n_entries |->
        IF k % 3 = 1
        THEN WithAlpha(SamplePixels[(((k \div 3) + shift) % Len(SamplePixels)) + 1],
                       255)
        ELSE rgba(((k - 1) * 7) % 256, (k - 1) % 256, (255 - (k - 1)) % 256, 255)]

IndexedPalettes(bits) ==
    {Some(Swatch(2^bits, shift)) : shift \in {0, 5}}
       \cup {Some(Ramp(2^bits, 7))}

\* pixels_into_data is about to be called on a width x height grid in an
\* indexed format, with a colour table of 2^bits entries.
InitIndexed ==
    /\ build \in Builds
    /\ op = "start"
    /\ \E format \in IndexedFormats, width \in 0..MaxRowWidth,
          height \in 1..MaxRowHeight, shift \in 0..2 :
          \E pal \in IndexedPalettes(format[1]) :
             input = [info |-> BitmapInfoHeader_new(width, height,
                                   format[1], format[2]).val,
                      palette |-> pal,
                      pixels |-> Grid(width * height, shift)]
    /\ bitmap = NoBitmap
    /\ buffer = << >>
    /\ output = << >>

SpecIndexed == InitIndexed /\ [][NextCodec]_vars

\* C29: with a colour table of 2^bits entries, encoding then decoding
\* gives, for each pixel, the table entry find_closest_by_index selects:
\* the colour of the pixel when the table has it, and otherwise a table
\* colour at the least distance, whatever the width.
C29_IndexedRoundTrip ==
    /\ op # "panicked"
    /\ op = "decoded" =>
          LET pal == input.palette.entries
          IN /\ output.ok
             /\ Len(output.val) = Len(input.pixels)
             /\ \A k \in 1..Len(input.pixels) :
                   LET p == input.pixels[k]
                       q == output.val[k]
                   IN /\ q = pal[find_closest_by_index(p, pal) + 1]
                      /\ (\E j \in 1..Len(pal) : SameRgb(pal[j], p))
                            => SameRgb(q, p)
                      /\ \A j \in 1..Len(pal) :
                            RgbDistance(p, q) <= RgbDistance(p, pal[j])

\* Two rows of 3 four-bit pixels come back, one pixel in its own colour and
\* one, outside the table, in another.
C29_Witness ==
    /\ op = "decoded"
    /\ input.info.bits_per_pixel = 4
    /\ input.info.image_width = 3
    /\ input.info.image_height = 2
    /\ output.ok
    /\ Len(output.val) = 6
    /\ \E k \in 1..6 : ~SameRgb(output.val[k], input.pixels[k])
    /\ \E k \in 1..6 : SameRgb(output.val[k], input.pixels[k])

===========================================================================
